---- MODULE Spec2Model ----
(***************************************************************************)
(* Pharmaventory backend: the medicine inventory, the transaction log, the *)
(* prescription workflow (create / validate / dispense) and the reorder    *)
(* workflow (sweep / approve / order / receive), as the Express handlers   *)
(* and the reorder service implement them on the Mongoose collections.     *)
(* Every action is one complete handler call (no interleaving of the       *)
(* database steps of two calls). A handler is an operator from the stored  *)
(* collections and its arguments to the collections it leaves behind and   *)
(* the JSON response it sends; the action commits the collections.         *)
(***************************************************************************)
EXTENDS Integers, Sequences, FiniteSets, TLC

VARIABLES
    medicines,      \* Medicine collection, indexed by _id (1..Len)
    prescriptions,  \* Prescription collection, indexed by _id
    reorders,       \* ReorderRequest collection, indexed by _id (insertion order)
    transactions,   \* Transaction collection, in insertion order
    now,            \* the clock (new Date())
    env,            \* process.env: which of the server's secrets are configured
    sweeps,         \* the sweep each cron timer is running, step by step
    queryReply,     \* what the last read-only query answered: <<>> or <<answer>>
    calls           \* the request each connection is serving, between two database calls

vars == <<medicines, prescriptions, reorders, transactions, now, env, sweeps, queryReply,
         calls>>

\* What no handler that writes the collections touches
others == <<env, sweeps, queryReply, calls>>

---------------------------------------------------------------------------
(* Bounds of the model *)
MaxMeds == 2
MaxPresc == 1
MaxItems == 2
MaxReorders == 2
MaxTx == 4
MaxTime == 1
MaxStock == 65
MaxDebt == 10
MaxApiMeds == 1
MaxApiReorders == 1

(* Inputs the handlers are driven with *)
\* The medicines stocked: 5 units that never expire, 2 units that expire after time 0
MedicineInputs == {[quantity |-> 5, expiryDate |-> MaxTime + 1],
                   [quantity |-> 2, expiryDate |-> 0]}
ItemQtys == {2, 3}
UpdateQtys == {1}
\* The update documents the PUT handler is driven with: a stock correction and a
\* negative quantity (refused by the schema validator)
QuantityUpdates == {[quantity |-> q] : q \in UpdateQtys \cup {-1}}
FarFuture == MaxTime + 1
\* The optional body field receivedQuantity: <<>> when undefined, else <<n>>
Absent == <<>>
ReceivedQtys == {Absent, <<0>>, <<-10>>}

(* An ObjectId no document has, and a string that is no ObjectId *)
MissingId == 0
InvalidId == -1

NoTime == -1

\* PrescriptionStatus
PENDING == "pending"
VALIDATED == "validated"
DISPENSED == "dispensed"
REJECTED == "rejected"
EXPIRED == "expired"

\* ReorderStatus
R_PENDING == "pending"
R_APPROVED == "approved"
R_ORDERED == "ordered"
R_RECEIVED == "received"
R_CANCELLED == "cancelled"

MinOrderQuantity == 50

\* The two cron.schedule timers of the server, both running the sweep
Timers == {"0 */6 * * *", "0 0 * * *"}

\* A timer whose sweep is not running
IdleSweep == [pc |-> "idle", medicines |-> <<>>, m |-> 0, existingRequest |-> 0]

\* The connections requests arrive on while another request is being served
Connections == {1, 2}

\* A connection with no request being served
IdleCall == [op |-> "none", pc |-> "idle", id |-> 0, items |-> <<>>, i |-> 0,
             previousStock |-> 0, validationErrors |-> <<>>, quantityToAdd |-> 0,
             medicineId |-> 0, code |-> 0]

---------------------------------------------------------------------------
(* Helpers *)
Max(a, b) == IF a >= b THEN a ELSE b

Abs(a) == IF a >= 0 THEN a ELSE -a

Has(f, k) == k \in DOMAIN f

\* Model.findById: the document with that _id, if any
Exists(coll, id) == id \in DOMAIN coll

\* mongoose.Types.ObjectId.isValid
IsValidObjectId(id) == id /= InvalidId

\* res.status(code).json({success, message})
Reply(code, success, msg) == [code |-> code, success |-> success, msg |-> msg]

\* The collections as a handler finds them
DB == [medicines |-> medicines, prescriptions |-> prescriptions,
       reorders |-> reorders, transactions |-> transactions]

\* What a handler call leaves: the collections db and the response sent
Result(db, reply) == [db |-> db, response |-> reply]

\* The handler's writes reach the database
Commit(r) ==
    /\ medicines' = r.db.medicines
    /\ prescriptions' = r.db.prescriptions
    /\ reorders' = r.db.reorders
    /\ transactions' = r.db.transactions
    /\ UNCHANGED <<now, others>>

Tx(mid, type, qty, prev, new, pid) ==
    [medicineId |-> mid, type |-> type, quantity |-> qty,
     previousStock |-> prev, newStock |-> new, prescriptionId |-> pid]

---------------------------------------------------------------------------
(* Medicine controller *)

\* createMedicineValidation: quantity isInt min 0, reorderThreshold isInt min 0
CreateMedicineValid(q, t) == q >= 0 /\ t >= 0

createMedicineResult(db, q, t, e) ==
    IF ~CreateMedicineValid(q, t)
    THEN Result(db, Reply(400, FALSE, "Validation failed"))
    ELSE Result([db EXCEPT
                   !.medicines = Append(@, [quantity |-> q, reorderThreshold |-> t,
                                            isActive |-> TRUE, expiryDate |-> e]),
                   !.transactions = Append(@,
                        Tx(Len(db.medicines) + 1, "purchase", q, 0, q, MissingId))],
                Reply(201, TRUE, "Medicine created successfully"))

createMedicine(q, t, e) ==
    /\ Len(medicines) < MaxMeds
    /\ Len(transactions) < MaxTx
    /\ Commit(createMedicineResult(DB, q, t, e))

\* runValidators: true -- the schema's min validators on the updated paths
UpdateValid(u) ==
    /\ Has(u, "quantity") => u.quantity >= 0
    /\ Has(u, "reorderThreshold") => u.reorderThreshold >= 0

\* Medicine.findByIdAndUpdate(id, updateData): the fields given replace the stored ones
ApplyUpdate(m, u) ==
    [f \in DOMAIN m |-> IF Has(u, f) THEN u[f] ELSE m[f]]

updateMedicineResult(db, id, u) ==
    IF ~IsValidObjectId(id)
    THEN Result(db, Reply(400, FALSE, "Invalid medicine ID"))
    ELSE IF ~Exists(db.medicines, id)
    THEN Result(db, Reply(404, FALSE, "Medicine not found"))
    ELSE IF ~UpdateValid(u)
    THEN Result(db, Reply(500, FALSE, "Error updating medicine. Please try again."))
    ELSE LET currentMedicine == db.medicines[id]
             updated == [db EXCEPT !.medicines[id] = ApplyUpdate(@, u)]
         IN Result(
              IF Has(u, "quantity") /\ u.quantity /= currentMedicine.quantity
              THEN [updated EXCEPT !.transactions = Append(@,
                        Tx(id, "adjustment", Abs(u.quantity - currentMedicine.quantity),
                           currentMedicine.quantity, u.quantity, MissingId))]
              ELSE updated,
              Reply(200, TRUE, "Medicine updated successfully"))

updateMedicine(id, u) ==
    /\ Len(transactions) < MaxTx
    /\ Commit(updateMedicineResult(DB, id, u))

deleteMedicineResult(db, id) ==
    IF ~IsValidObjectId(id)
    THEN Result(db, Reply(400, FALSE, "Invalid medicine ID"))
    ELSE IF ~Exists(db.medicines, id)
    THEN Result(db, Reply(404, FALSE, "Medicine not found"))
    ELSE Result([db EXCEPT !.medicines[id].isActive = FALSE],
                Reply(200, TRUE, "Medicine deleted successfully"))

deleteMedicine(id) == Commit(deleteMedicineResult(DB, id))

\* Time passes between requests
Tick ==
    /\ now < MaxTime
    /\ now' = now + 1
    /\ UNCHANGED <<medicines, prescriptions, reorders, transactions, others>>

---------------------------------------------------------------------------
(* Prescription controller *)

\* createPrescriptionValidation: items isArray min 1, items.*.quantity isInt min 1
CreatePrescriptionValid(items) ==
    /\ Len(items) >= 1
    /\ \A i \in DOMAIN items : items[i].quantity >= 1

createPrescriptionResult(db, items) ==
    IF ~CreatePrescriptionValid(items)
    THEN Result(db, Reply(400, FALSE, "Validation failed"))
    ELSE Result([db EXCEPT !.prescriptions = Append(@,
                    [items |-> items, status |-> PENDING, rejectionReason |-> <<>>,
                     validatedAt |-> NoTime, dispensedAt |-> NoTime])],
                Reply(201, TRUE, "Prescription created successfully"))

createPrescription(items) ==
    /\ Len(prescriptions) < MaxPresc
    /\ Commit(createPrescriptionResult(DB, items))

\* (ItemError with the stock test off by one, and with no expiry test)
ItemErrorStrictStock(item, meds, today) ==
    IF ~Exists(meds, item.medicineId)
    THEN <<[kind |-> "not found", medicineId |-> item.medicineId]>>
    ELSE LET medicine == meds[item.medicineId] IN
         IF ~medicine.isActive
         THEN <<[kind |-> "is not available", medicineId |-> item.medicineId]>>
         ELSE IF medicine.quantity <= item.quantity
         THEN <<[kind |-> "Insufficient stock", medicineId |-> item.medicineId,
                 available |-> medicine.quantity, required |-> item.quantity]>>
         ELSE IF medicine.expiryDate < today
         THEN <<[kind |-> "has expired", medicineId |-> item.medicineId]>>
         ELSE <<>>

ItemErrorNoExpiry(item, meds, today) ==
    IF ~Exists(meds, item.medicineId)
    THEN <<[kind |-> "not found", medicineId |-> item.medicineId]>>
    ELSE LET medicine == meds[item.medicineId] IN
         IF ~medicine.isActive
         THEN <<[kind |-> "is not available", medicineId |-> item.medicineId]>>
         ELSE IF medicine.quantity < item.quantity
         THEN <<[kind |-> "Insufficient stock", medicineId |-> item.medicineId,
                 available |-> medicine.quantity, required |-> item.quantity]>>
         ELSE <<>>

\* The message validatePrescription pushes for one item, or none (<<>>) if the item
\* passes: not found, not available, insufficient stock, expired -- in that order
ItemError(item, meds, today) ==
    IF ~Exists(meds, item.medicineId)
    THEN <<[kind |-> "not found", medicineId |-> item.medicineId]>>
    ELSE LET medicine == meds[item.medicineId] IN
         IF ~medicine.isActive
         THEN <<[kind |-> "is not available", medicineId |-> item.medicineId]>>
         ELSE IF medicine.quantity < item.quantity
         THEN <<[kind |-> "Insufficient stock", medicineId |-> item.medicineId,
                 available |-> medicine.quantity, required |-> item.quantity]>>
         ELSE IF medicine.expiryDate < today
         THEN <<[kind |-> "has expired", medicineId |-> item.medicineId]>>
         ELSE <<>>

\* The validationErrors array after the loop over prescription.items
RECURSIVE ValidationErrors(_, _, _)
ValidationErrors(items, meds, today) ==
    IF items = <<>> THEN <<>>
    ELSE ItemError(Head(items), meds, today) \o ValidationErrors(Tail(items), meds, today)

\* Array.prototype.join('; '): the messages with a separator between two of them
Separator == [kind |-> "; "]

RECURSIVE Join(_)
Join(msgs) ==
    IF Len(msgs) <= 1 THEN msgs
    ELSE <<Head(msgs), Separator>> \o Join(Tail(msgs))

\* if (prescription.status !== PrescriptionStatus.PENDING)
NotPendingLax(prescription) == prescription.status = DISPENSED

NotPending(prescription) == prescription.status /= PENDING

validatePrescriptionResult(db, id, today) ==
    IF ~IsValidObjectId(id)
    THEN Result(db, Reply(400, FALSE, "Invalid prescription ID"))
    ELSE IF ~Exists(db.prescriptions, id)
    THEN Result(db, Reply(404, FALSE, "Prescription not found"))
    ELSE IF NotPending(db.prescriptions[id])
    THEN Result(db, Reply(400, FALSE,
                          <<"Prescription is already", db.prescriptions[id].status>>))
    ELSE LET validationErrors ==
                 ValidationErrors(db.prescriptions[id].items, db.medicines, today) IN
         IF Len(validationErrors) > 0
         THEN Result([db EXCEPT !.prescriptions[id].status = REJECTED,
                                !.prescriptions[id].rejectionReason = Join(validationErrors),
                                !.prescriptions[id].validatedAt = today],
                     Reply(400, FALSE, "Prescription validation failed"))
         ELSE Result([db EXCEPT !.prescriptions[id].status = VALIDATED,
                                !.prescriptions[id].validatedAt = today],
                     Reply(200, TRUE, "Prescription validated successfully"))

validatePrescription(id) == Commit(validatePrescriptionResult(DB, id, now))

NoError == "none"

\* One pass of the loop of dispensePrescription, from acc = [medicines,
\* transactions, error]: the item re-reads its medicine, throws if it is missing
\* or short of stock, else writes the new quantity and creates the dispense
\* transaction.
DispenseItemRewritesLog(item, pid, acc) ==
    IF ~Exists(acc.medicines, item.medicineId)
    THEN [acc EXCEPT !.error = "not found"]
    ELSE LET previousStock == acc.medicines[item.medicineId].quantity
             newStock == previousStock - item.quantity
         IN IF previousStock < item.quantity
            THEN [acc EXCEPT !.error = "Insufficient stock"]
            ELSE [acc EXCEPT
                    !.medicines[item.medicineId].quantity = newStock,
                    !.transactions =
                        <<Tx(item.medicineId, "dispense", item.quantity,
                             previousStock, newStock, pid)>>]

DispenseItemWrongStock(item, pid, acc) ==
    IF ~Exists(acc.medicines, item.medicineId)
    THEN [acc EXCEPT !.error = "not found"]
    ELSE LET previousStock == acc.medicines[item.medicineId].quantity
             newStock == previousStock - 1
         IN IF previousStock < item.quantity
            THEN [acc EXCEPT !.error = "Insufficient stock"]
            ELSE [acc EXCEPT
                    !.medicines[item.medicineId].quantity = newStock,
                    !.transactions = Append(@,
                        Tx(item.medicineId, "dispense", item.quantity,
                           previousStock, newStock, pid))]

DispenseItem(item, pid, acc) ==
    IF ~Exists(acc.medicines, item.medicineId)
    THEN [acc EXCEPT !.error = "not found"]
    ELSE LET medicine == acc.medicines[item.medicineId]
             previousStock == medicine.quantity
             newStock == previousStock - item.quantity
         IN IF medicine.quantity < item.quantity
            THEN [acc EXCEPT !.error = "Insufficient stock"]
            ELSE [acc EXCEPT
                    !.medicines[item.medicineId].quantity = newStock,
                    !.transactions = Append(@,
                        Tx(item.medicineId, "dispense", item.quantity,
                           previousStock, newStock, pid))]

\* The loop over prescription.items: a throw ends it, and what was written
\* before the throw stays written.
RECURSIVE DispenseItems(_, _, _)
DispenseItems(items, pid, acc) ==
    IF items = <<>> \/ acc.error /= NoError THEN acc
    ELSE DispenseItems(Tail(items), pid, DispenseItem(Head(items), pid, acc))

\* if (prescription.status !== PrescriptionStatus.VALIDATED)
NotValidatedLax(prescription) == prescription.status \notin {VALIDATED, PENDING}

NotValidated(prescription) == prescription.status /= VALIDATED

MustBeValidated == "Prescription must be validated before dispensing. Current status:"

\* (dispensePrescription undoing the writes of the earlier items on a throw)
dispensePrescriptionResultRollingBack(db, id, today) ==
    IF ~IsValidObjectId(id)
    THEN Result(db, Reply(400, FALSE, "Invalid prescription ID"))
    ELSE IF ~Exists(db.prescriptions, id)
    THEN Result(db, Reply(404, FALSE, "Prescription not found"))
    ELSE IF NotValidated(db.prescriptions[id])
    THEN Result(db, Reply(400, FALSE, <<MustBeValidated, db.prescriptions[id].status>>))
    ELSE LET done == DispenseItems(db.prescriptions[id].items, id,
                        [medicines |-> db.medicines, transactions |-> db.transactions,
                         error |-> NoError])
             written == [db EXCEPT !.medicines = done.medicines,
                                   !.transactions = done.transactions]
         IN IF done.error /= NoError
            THEN Result(db, Reply(500, FALSE, done.error))
            ELSE Result([written EXCEPT !.prescriptions[id].status = DISPENSED,
                                        !.prescriptions[id].dispensedAt = today],
                        Reply(200, TRUE, "Prescription dispensed successfully"))

dispensePrescriptionResult(db, id, today) ==
    IF ~IsValidObjectId(id)
    THEN Result(db, Reply(400, FALSE, "Invalid prescription ID"))
    ELSE IF ~Exists(db.prescriptions, id)
    THEN Result(db, Reply(404, FALSE, "Prescription not found"))
    ELSE IF NotValidated(db.prescriptions[id])
    THEN Result(db, Reply(400, FALSE, <<MustBeValidated, db.prescriptions[id].status>>))
    ELSE LET done == DispenseItems(db.prescriptions[id].items, id,
                        [medicines |-> db.medicines, transactions |-> db.transactions,
                         error |-> NoError])
             written == [db EXCEPT !.medicines = done.medicines,
                                   !.transactions = done.transactions]
         IN IF done.error /= NoError
            THEN Result(written, Reply(500, FALSE, done.error))
            ELSE Result([written EXCEPT !.prescriptions[id].status = DISPENSED,
                                        !.prescriptions[id].dispensedAt = today],
                        Reply(200, TRUE, "Prescription dispensed successfully"))

dispensePrescription(id) ==
    /\ Exists(prescriptions, id) /\ ~NotValidated(prescriptions[id]) =>
          Len(transactions) + Len(prescriptions[id].items) <= MaxTx
    /\ Commit(dispensePrescriptionResult(DB, id, now))

---------------------------------------------------------------------------
(* Reorder service and controller *)

\* status: { $in: [PENDING, APPROVED] }
OpenStatuses == {R_PENDING, R_APPROVED}

\* The stored requests of medicine m that are pending or approved
OpenRequests(reqs, m) ==
    {r \in DOMAIN reqs : reqs[r].medicineId = m /\ reqs[r].status \in OpenStatuses}

\* The orders in which findOne, given no sort, may meet the matching documents
NaturalOrders == {"oldest first", "newest first"}

\* ReorderRequest.findOne({medicineId, status: {$in: ...}}): the first match in
\* the store's order, MissingId if there is none
FindOpenRequest(reqs, m, natural) ==
    LET open == OpenRequests(reqs, m) IN
    IF open = {} THEN MissingId
    ELSE IF natural = "oldest first"
         THEN CHOOSE r \in open : \A o \in open : r <= o
         ELSE CHOOSE r \in open : \A o \in open : r >= o

\* Math.max(medicine.reorderThreshold * 3, 50)
RequestedQuantityNoFloor(threshold) == threshold * 3

RequestedQuantity(threshold) == Max(threshold * 3, MinOrderQuantity)

\* reorderRequestSchema, run by ReorderRequest.create: currentStock min 0,
\* reorderThreshold min 0, requestedQuantity min 1
ReorderRequestValid(req) ==
    /\ req.currentStock >= 0
    /\ req.reorderThreshold >= 0
    /\ req.requestedQuantity >= 1

\* A pass that leaves the snapshot of an existing open request as it is
SweepMedicineNoRefresh(m, medicine, acc, natural) ==
    IF ~(medicine.quantity <= medicine.reorderThreshold) THEN acc
    ELSE IF FindOpenRequest(acc.reorders, m, natural) /= MissingId THEN acc
         ELSE LET request ==
                      [medicineId |-> m,
                       currentStock |-> medicine.quantity,
                       reorderThreshold |-> medicine.reorderThreshold,
                       requestedQuantity |-> Max(medicine.reorderThreshold * 3, MinOrderQuantity),
                       status |-> "pending",
                       approvedAt |-> NoTime, orderedAt |-> NoTime,
                       receivedAt |-> NoTime]
              IN IF request.currentStock >= 0
                 THEN [acc EXCEPT !.reorders = Append(@, request)]
                 ELSE [acc EXCEPT !.error = "ValidationError"]

\* One pass of the loop of checkAndCreateReorderRequests, for the medicine with
\* id m as the sweep read it, from acc = [reorders, error]
SweepMedicine(m, medicine, acc, natural) ==
    IF ~(medicine.quantity <= medicine.reorderThreshold) THEN acc
    ELSE LET existingRequest == FindOpenRequest(acc.reorders, m, natural) IN
         IF existingRequest /= MissingId
         THEN IF acc.reorders[existingRequest].currentStock /= medicine.quantity
              THEN [acc EXCEPT !.reorders[existingRequest].currentStock = medicine.quantity]
              ELSE acc
         ELSE LET request ==
                      [medicineId |-> m,
                       currentStock |-> medicine.quantity,
                       reorderThreshold |-> medicine.reorderThreshold,
                       requestedQuantity |-> RequestedQuantity(medicine.reorderThreshold),
                       status |-> R_PENDING,
                       approvedAt |-> NoTime, orderedAt |-> NoTime,
                       receivedAt |-> NoTime]
              IN IF ReorderRequestValid(request)
                 THEN [acc EXCEPT !.reorders = Append(@, request)]
                 ELSE [acc EXCEPT !.error = "ValidationError"]

\* The loop over Medicine.find({isActive: true}), medicines m..Len(meds); a
\* throw ends it (the catch of the sweep logs it) and keeps what was written
RECURSIVE SweepFrom(_, _, _, _)
SweepFrom(m, meds, acc, natural) ==
    IF m > Len(meds) \/ acc.error /= NoError THEN acc
    ELSE SweepFrom(m + 1, meds,
                   IF meds[m].isActive THEN SweepMedicine(m, meds[m], acc, natural)
                   ELSE acc,
                   natural)

checkAndCreateReorderRequestsResult(db, natural) ==
    [db EXCEPT !.reorders =
        SweepFrom(1, db.medicines, [reorders |-> db.reorders, error |-> NoError],
                  natural).reorders]

checkAndCreateReorderRequests(natural) ==
    LET swept == checkAndCreateReorderRequestsResult(DB, natural) IN
    /\ Len(swept.reorders) <= MaxReorders
    /\ reorders' = swept.reorders
    /\ UNCHANGED <<medicines, prescriptions, transactions, now, others>>

NotFound == "Reorder request not found"

\* approveReorderRequest: findByIdAndUpdate(requestId, {status: APPROVED, ...}),
\* whatever the status was; throws if there is no such request
approveReorderRequest(db, requestId, today) ==
    IF ~Exists(db.reorders, requestId)
    THEN [db |-> db, error |-> NotFound]
    ELSE [db |-> [db EXCEPT !.reorders[requestId].status = R_APPROVED,
                            !.reorders[requestId].approvedAt = today],
          error |-> NoError]

\* markReorderRequestAsOrdered: findByIdAndUpdate(requestId, {status: ORDERED, ...})
markReorderRequestAsOrdered(db, requestId, today) ==
    IF ~Exists(db.reorders, requestId)
    THEN [db |-> db, error |-> NotFound]
    ELSE [db |-> [db EXCEPT !.reorders[requestId].status = R_ORDERED,
                            !.reorders[requestId].orderedAt = today],
          error |-> NoError]

\* receivedQuantity || request.requestedQuantity: undefined and 0 are falsy
QuantityToAdd(receivedQuantity, requestedQuantity) ==
    IF receivedQuantity = Absent \/ receivedQuantity[1] = 0
    THEN requestedQuantity
    ELSE receivedQuantity[1]

\* markReorderRequestAsReceived: $inc the medicine's quantity (if the medicine is
\* found), then set the request received with requestedQuantity = quantityToAdd
markReorderRequestAsReceived(db, requestId, receivedQuantity, today) ==
    IF ~Exists(db.reorders, requestId)
    THEN [db |-> db, error |-> NotFound]
    ELSE LET request == db.reorders[requestId]
             quantityToAdd == QuantityToAdd(receivedQuantity, request.requestedQuantity)
             stocked == IF Exists(db.medicines, request.medicineId)
                        THEN [db EXCEPT !.medicines[request.medicineId].quantity
                                            = @ + quantityToAdd]
                        ELSE db
         IN [db |-> [stocked EXCEPT !.reorders[requestId].status = R_RECEIVED,
                                    !.reorders[requestId].receivedAt = today,
                                    !.reorders[requestId].requestedQuantity = quantityToAdd],
             error |-> NoError]

\* The controllers' try/catch around a service call: 200, or 500 with the message
ServiceReply(done, msg) ==
    IF done.error = NoError
    THEN Result(done.db, Reply(200, TRUE, msg))
    ELSE Result(done.db, Reply(500, FALSE, done.error))

approveRequestResult(db, id, today) ==
    IF ~IsValidObjectId(id)
    THEN Result(db, Reply(400, FALSE, "Invalid reorder request ID"))
    ELSE ServiceReply(approveReorderRequest(db, id, today),
                      "Reorder request approved successfully")

approveRequest(id) == Commit(approveRequestResult(DB, id, now))

markAsOrderedResult(db, id, today) ==
    IF ~IsValidObjectId(id)
    THEN Result(db, Reply(400, FALSE, "Invalid reorder request ID"))
    ELSE ServiceReply(markReorderRequestAsOrdered(db, id, today),
                      "Reorder request marked as ordered")

markAsOrdered(id) == Commit(markAsOrderedResult(DB, id, now))

markAsReceivedResult(db, id, receivedQuantity, today) ==
    IF ~IsValidObjectId(id)
    THEN Result(db, Reply(400, FALSE, "Invalid reorder request ID"))
    ELSE ServiceReply(markReorderRequestAsReceived(db, id, receivedQuantity, today),
                      "Reorder request marked as received and stock updated")

markAsReceived(id, receivedQuantity) ==
    LET r == markAsReceivedResult(DB, id, receivedQuantity, now) IN
    /\ \A m \in DOMAIN r.db.medicines :
          /\ r.db.medicines[m].quantity <= MaxStock
          /\ r.db.medicines[m].quantity >= -MaxDebt
    /\ Commit(r)

---------------------------------------------------------------------------
(* Authentication middleware and the route table *)

\* UserRole
ADMIN == "admin"
PHARMACIST == "pharmacist"
STAFF == "staff"

\* The User collection, indexed by _id: one active user of each role and a
\* deactivated administrator
Users == <<[role |-> ADMIN, isActive |-> TRUE],
           [role |-> PHARMACIST, isActive |-> TRUE],
           [role |-> STAFF, isActive |-> TRUE],
           [role |-> ADMIN, isActive |-> FALSE]>>

\* A JWT: its payload (userId, role), whether it is signed with the server's
\* secret, and whether its exp has passed
Token(userId, role) ==
    [userId |-> userId, role |-> role, signed |-> TRUE, expired |-> FALSE]

\* The tokens requests carry: the one login issues to each user, one of a user
\* that no longer exists, a forged one, an expired one, and one whose role claim
\* (admin) is not the stored role of its user (staff)
Tokens ==
    {Token(u, Users[u].role) : u \in DOMAIN Users}
        \cup {Token(MissingId, ADMIN),
              [Token(1, ADMIN) EXCEPT !.signed = FALSE],
              [Token(1, ADMIN) EXCEPT !.expired = TRUE],
              Token(3, ADMIN)}

\* req.headers.authorization: <<>> when the header is missing, else <<[scheme,
\* token]>> for the string scheme + token, the token <<>> when nothing follows
Headers ==
    {Absent}
        \cup {<<[scheme |-> "Bearer ", token |-> <<>>]>>}
        \cup {<<[scheme |-> "Bearer ", token |-> <<t>>]>> : t \in Tokens}
        \cup {<<[scheme |-> "Basic ", token |-> <<Token(1, ADMIN)>>]>>}

\* jwt.verify(token, jwtSecret): the decoded payload, or the error thrown
VerifyIgnoringExpiry(token) ==
    IF ~token.signed THEN [error |-> "JsonWebTokenError"]
    ELSE [error |-> NoError, userId |-> token.userId, role |-> token.role]

Verify(token) ==
    IF ~token.signed THEN [error |-> "JsonWebTokenError"]
    ELSE IF token.expired THEN [error |-> "TokenExpiredError"]
    ELSE [error |-> NoError, userId |-> token.userId, role |-> token.role]

\* error instanceof jwt.JsonWebTokenError: TokenExpiredError extends it
IsJsonWebTokenError(error) == error \in {"JsonWebTokenError", "TokenExpiredError"}

\* What a middleware leaves: the response it sent (<<>> when it called next())
\* and req.user (MissingId when not attached)
Passed(user) == [response |-> <<>>, user |-> user]
Refused(code, msg) == [response |-> <<Reply(code, FALSE, msg)>>, user |-> MissingId]

NoTokenProvided == "Authentication required. Please provide a valid token."

authenticate(environment, authHeader) ==
    IF authHeader = Absent \/ authHeader[1].scheme /= "Bearer "
    THEN Refused(401, NoTokenProvided)
    ELSE IF authHeader[1].token = <<>>
    THEN Refused(401, NoTokenProvided)
    ELSE IF ~environment.JWT_SECRET
    THEN Refused(500, "Server configuration error")
    ELSE LET decoded == Verify(authHeader[1].token[1]) IN
         IF decoded.error /= NoError
         THEN IF IsJsonWebTokenError(decoded.error)
              THEN Refused(401, "Invalid token. Please login again.")
              ELSE IF decoded.error = "TokenExpiredError"
              THEN Refused(401, "Token has expired. Please login again.")
              ELSE Refused(500, "Authentication error. Please try again.")
         ELSE IF ~Exists(Users, decoded.userId)
         THEN Refused(401, "User not found. Token is invalid.")
         ELSE IF ~Users[decoded.userId].isActive
         THEN Refused(403, "Your account has been deactivated. Please contact an administrator.")
         ELSE Passed(decoded.userId)

NoPermission == "You do not have permission to access this resource."

\* authorize(...allowedRoles), run after authenticate attached user
authorizeByTokenRole(authHeader, user, allowedRoles) ==
    IF user = MissingId THEN Refused(401, "Authentication required")
    ELSE IF authHeader[1].token[1].role \notin allowedRoles
    THEN Refused(403, NoPermission)
    ELSE Passed(user)

authorize(authHeader, user, allowedRoles) ==
    IF user = MissingId THEN Refused(401, "Authentication required")
    ELSE IF Users[user].role \notin allowedRoles
    THEN Refused(403, NoPermission)
    ELSE Passed(user)

\* A route: authenticate, then authorize(...gate[1]) if the route has one (gate
\* is <<>> if not), then the handler, whose outcome is handled. The outcome of
\* the request: the collections, the response, req.user and whether the handler ran
Route(environment, db, authHeader, gate, handled) ==
    LET authenticated == authenticate(environment, authHeader)
        authorized == IF authenticated.response /= <<>> \/ gate = <<>>
                      THEN authenticated
                      ELSE authorize(authHeader, authenticated.user, gate[1])
    IN IF authorized.response /= <<>>
       THEN [db |-> db, response |-> authorized.response[1],
             user |-> MissingId, ran |-> FALSE]
       ELSE [db |-> handled.db, response |-> handled.response,
             user |-> authorized.user, ran |-> TRUE]

\* The routes whose handlers write, and the analytics routes
POST_medicines == "POST /api/medicines"
PUT_medicine == "PUT /api/medicines/:id"
DELETE_medicine == "DELETE /api/medicines/:id"
POST_prescriptions == "POST /api/prescriptions"
POST_validate == "POST /api/prescriptions/:id/validate"
POST_dispense == "POST /api/prescriptions/:id/dispense"
POST_approve == "POST /api/reorders/:id/approve"
POST_order == "POST /api/reorders/:id/order"
POST_receive == "POST /api/reorders/:id/receive"
AnalyticsRoutes == {"GET /api/analytics/demand-trends",
                    "GET /api/analytics/inventory",
                    "GET /api/analytics/reorder-recommendations"}

Routes ==
    {POST_medicines, PUT_medicine, DELETE_medicine, POST_prescriptions,
     POST_validate, POST_dispense, POST_approve, POST_order, POST_receive}
        \cup AnalyticsRoutes

\* The authorize(...) of each route, <<>> for a route that has none
Gate(route) ==
    CASE route \in {POST_medicines, PUT_medicine} -> <<{ADMIN, PHARMACIST, STAFF}>>
      [] route = DELETE_medicine -> <<{ADMIN}>>
      [] route = POST_prescriptions -> <<>>
      [] route \in {POST_validate, POST_dispense} -> <<{PHARMACIST, ADMIN}>>
      [] route \in {POST_approve, POST_order, POST_receive} -> <<{ADMIN, PHARMACIST}>>
      [] route \in AnalyticsRoutes -> <<{ADMIN, PHARMACIST}>>

\* The handler at the end of each route, called with req.params.id and req.body
Handler(route, db, id, body, today) ==
    CASE route = POST_medicines ->
            createMedicineResult(db, body.quantity, body.reorderThreshold, body.expiryDate)
      [] route = PUT_medicine -> updateMedicineResult(db, id, body)
      [] route = DELETE_medicine -> deleteMedicineResult(db, id)
      [] route = POST_prescriptions -> createPrescriptionResult(db, body)
      [] route = POST_validate -> validatePrescriptionResult(db, id, today)
      [] route = POST_dispense -> dispensePrescriptionResult(db, id, today)
      [] route = POST_approve -> approveRequestResult(db, id, today)
      [] route = POST_order -> markAsOrderedResult(db, id, today)
      [] route = POST_receive -> markAsReceivedResult(db, id, body, today)
      [] route \in AnalyticsRoutes -> Result(db, Reply(200, TRUE, route))

\* One request through the router
Serve(environment, db, today, route, authHeader, id, body) ==
    Route(environment, db, authHeader, Gate(route), Handler(route, db, id, body, today))

\* The stored collections stay within the bounds of the model
WithinBounds(db) ==
    /\ Len(db.medicines) <= MaxMeds
    /\ Len(db.prescriptions) <= MaxPresc
    /\ Len(db.reorders) <= MaxReorders
    /\ Len(db.transactions) <= MaxTx
    /\ \A m \in DOMAIN db.medicines :
          /\ db.medicines[m].quantity <= MaxStock
          /\ db.medicines[m].quantity >= -MaxDebt

Request(route, authHeader, id, body) ==
    LET served == Serve(env, DB, now, route, authHeader, id, body) IN
    /\ WithinBounds(served.db)
    /\ Commit(served)

---------------------------------------------------------------------------
Init ==
    /\ medicines = <<>>
    /\ prescriptions = <<>>
    /\ reorders = <<>>
    /\ transactions = <<>>
    /\ now = 0
    /\ env = [JWT_SECRET |-> TRUE, OPENROUTER_API_KEY |-> FALSE]
    /\ sweeps = [timer \in Timers |-> IdleSweep]
    /\ queryReply = <<>>
    /\ calls = [c \in Connections |-> IdleCall]

\* The ids a handler is called with: every stored document's, one no document
\* has, and one that is no ObjectId
IdInputs(coll) == DOMAIN coll \cup {MissingId, InvalidId}

\* The items of a prescription body: a medicine in stock or an unknown one
ItemInputs ==
    [medicineId : DOMAIN medicines \cup {MissingId}, quantity : ItemQtys]

ItemListInputs ==
    {<<>>} \cup UNION {[1..n -> ItemInputs] : n \in 1..MaxItems}

\* Calls of the medicine and prescription handlers
NextRx ==
    \/ \E m \in MedicineInputs : createMedicine(m.quantity, 10, m.expiryDate)
    \/ \E id \in IdInputs(medicines), u \in QuantityUpdates : updateMedicine(id, u)
    \/ \E id \in IdInputs(medicines) : deleteMedicine(id)
    \/ Tick
    \/ \E items \in ItemListInputs : createPrescription(items)
    \/ \E id \in IdInputs(prescriptions) : validatePrescription(id)
    \/ \E id \in IdInputs(prescriptions) : dispensePrescription(id)

SpecRx == Init /\ [][NextRx]_vars

\* The medicines stocked for the reorder workflow: both at or below their threshold
ReorderMedicineInputs == {[quantity |-> 5, reorderThreshold |-> 10],
                          [quantity |-> 2, reorderThreshold |-> 20]}

\* Calls of the medicine and reorder handlers, and runs of the scheduled sweep
NextReorder ==
    \/ \E m \in ReorderMedicineInputs :
          createMedicine(m.quantity, m.reorderThreshold, FarFuture)
    \/ \E id \in DOMAIN medicines : deleteMedicine(id)
    \/ \E natural \in NaturalOrders : checkAndCreateReorderRequests(natural)
    \/ \E id \in IdInputs(reorders) : approveRequest(id)
    \/ \E id \in IdInputs(reorders) : markAsOrdered(id)
    \/ \E id \in IdInputs(reorders), rq \in ReceivedQtys : markAsReceived(id, rq)

SpecReorder == Init /\ [][NextReorder]_vars

\* The request bodies the router is driven with
ApiMedicineBodies ==
    {[quantity |-> 5, reorderThreshold |-> 10, expiryDate |-> FarFuture]}

ApiItemLists == {<<>>, <<[medicineId |-> 1, quantity |-> 2]>>}

\* The headers the router is driven with: none, and the token of each user
ApiHeaders == {Absent} \cup {<<[scheme |-> "Bearer ", token |-> <<Token(u, Users[u].role)>>]>> :
                                u \in DOMAIN Users}

\* Requests on every route, authenticated as each user or not at all, and runs
\* of the scheduled sweep
NextApi ==
    \/ \E h \in ApiHeaders, body \in ApiMedicineBodies :
          /\ Len(medicines) < MaxApiMeds
          /\ Request(POST_medicines, h, MissingId, body)
    \/ \E h \in ApiHeaders, id \in IdInputs(medicines), body \in QuantityUpdates :
          Request(PUT_medicine, h, id, body)
    \/ \E h \in ApiHeaders, id \in IdInputs(medicines) :
          Request(DELETE_medicine, h, id, Absent)
    \/ \E h \in ApiHeaders, body \in ApiItemLists :
          Request(POST_prescriptions, h, MissingId, body)
    \/ \E h \in ApiHeaders, id \in IdInputs(prescriptions) :
          Request(POST_validate, h, id, Absent)
    \/ \E h \in ApiHeaders, id \in IdInputs(prescriptions) :
          Request(POST_dispense, h, id, Absent)
    \/ \E h \in ApiHeaders, id \in IdInputs(reorders) :
          Request(POST_approve, h, id, Absent)
    \/ \E h \in ApiHeaders, id \in IdInputs(reorders) :
          Request(POST_order, h, id, Absent)
    \/ \E h \in ApiHeaders, id \in IdInputs(reorders) :
          Request(POST_receive, h, id, Absent)
    \/ \E h \in ApiHeaders, route \in AnalyticsRoutes :
          Request(route, h, MissingId, Absent)
    \/ \E natural \in NaturalOrders :
          /\ Len(checkAndCreateReorderRequestsResult(DB, natural).reorders) <= MaxApiReorders
          /\ checkAndCreateReorderRequests(natural)

SpecApi == Init /\ [][NextApi]_vars

---------------------------------------------------------------------------
(* Properties of the prescription workflow *)

\* The quantity the items of a prescription ask of medicine m, summed
RECURSIVE Demand(_, _)
Demand(items, m) ==
    IF items = <<>> THEN 0
    ELSE (IF Head(items).medicineId = m THEN Head(items).quantity ELSE 0)
            + Demand(Tail(items), m)

\* Every item asks for no more than the current stock of its medicine
EachItemInStock(items) ==
    \A i \in DOMAIN items :
        /\ Exists(medicines, items[i].medicineId)
        /\ items[i].quantity <= medicines[items[i].medicineId].quantity

\* The items together ask for no more than the current stock of each medicine
TotalInStock(items) ==
    \A i \in DOMAIN items :
        /\ Exists(medicines, items[i].medicineId)
        /\ Demand(items, items[i].medicineId) <= medicines[items[i].medicineId].quantity

\* The step was a full dispense of prescription p: every medicine is down by what
\* the items ask of it, one dispense transaction per item was appended in item
\* order, and the prescription is dispensed
DispensedInFull(p) ==
    LET items == prescriptions[p].items
        n == Len(transactions)
    IN /\ DOMAIN medicines' = DOMAIN medicines
       /\ \A m \in DOMAIN medicines :
             medicines'[m].quantity = medicines[m].quantity - Demand(items, m)
       /\ Len(transactions') = n + Len(items)
       /\ SubSeq(transactions', 1, n) = transactions
       /\ \A i \in DOMAIN items :
             /\ transactions'[n + i].type = "dispense"
             /\ transactions'[n + i].medicineId = items[i].medicineId
             /\ transactions'[n + i].quantity = items[i].quantity
             /\ transactions'[n + i].prescriptionId = p
       /\ prescriptions'[p].status = DISPENSED

\* C1 as stated: a validated prescription whose items EACH ask for no more than
\* the current stock of their medicine is dispensed in full. (Refuted: two items
\* of 3 on a medicine with 5 in stock.)
C1_EachItemInStockDispensed ==
    [][\A p \in DOMAIN prescriptions :
          (/\ dispensePrescription(p)
           /\ prescriptions[p].status = VALIDATED
           /\ EachItemInStock(prescriptions[p].items))
          => DispensedInFull(p)]_vars

\* C1 amended: a validated prescription whose items TOGETHER ask for no more than
\* the current stock of each medicine they reference is dispensed in full: each
\* medicine's quantity goes down by exactly the prescribed quantities, exactly one
\* dispense transaction per item is appended, the status becomes dispensed.
C1_TotalInStockDispensed ==
    [][\A p \in DOMAIN prescriptions :
          (/\ dispensePrescription(p)
           /\ prescriptions[p].status = VALIDATED
           /\ TotalInStock(prescriptions[p].items))
          => DispensedInFull(p)]_vars

\* A dispensed prescription with two items on the same medicine, both logged
C1_Witness ==
    \E p \in DOMAIN prescriptions :
        /\ prescriptions[p].status = DISPENSED
        /\ Len(prescriptions[p].items) = 2
        /\ prescriptions[p].items[1].medicineId = prescriptions[p].items[2].medicineId
        /\ Cardinality({i \in DOMAIN transactions :
                          /\ transactions[i].type = "dispense"
                          /\ transactions[i].prescriptionId = p}) = 2

\* C2: in every reachable state, a dispensePrescription call on a stored
\* prescription whose status is not validated is answered 400 with the message
\* naming the precondition (must be validated, and the current status), and leaves
\* the medicines, the transaction log and the prescriptions as they were.
C2_DispenseUnvalidatedRejected ==
    \A p \in DOMAIN prescriptions :
        prescriptions[p].status /= VALIDATED =>
            LET r == dispensePrescriptionResult(DB, p, now) IN
            /\ r.response.code = 400
            /\ r.response.success = FALSE
            /\ r.response.msg = <<MustBeValidated, prescriptions[p].status>>
            /\ r.db = DB

\* A prescription that was dispensed (so medicines were debited and transactions
\* logged) and one more dispense call on it is refused
C2_Witness ==
    \E p \in DOMAIN prescriptions :
        /\ prescriptions[p].status = DISPENSED
        /\ \E i \in DOMAIN transactions : transactions[i].prescriptionId = p
        /\ dispensePrescriptionResult(DB, p, now).response.code = 400

\* An item that validation must refuse: its medicine is missing, inactive, short
\* of stock or expired
ItemFails(item) ==
    \/ ~Exists(medicines, item.medicineId)
    \/ ~medicines[item.medicineId].isActive
    \/ medicines[item.medicineId].quantity < item.quantity
    \/ medicines[item.medicineId].expiryDate < now

FailingItems(items) == SelectSeq(items, ItemFails)

IsMessage(x) == x.kind /= Separator.kind

\* The messages of a joined rejection reason
Messages(reason) == SelectSeq(reason, IsMessage)

\* C3: validating a pending prescription with at least one failing item sets its
\* status to rejected, with a non-empty rejectionReason holding one message per
\* failing item, in item order (an insufficient-stock message, with the stock and
\* the quantity asked, for an item short of stock on an active medicine), and the
\* caller gets 400 with success false.
C3_FailingItemsRejected ==
    [][\A p \in DOMAIN prescriptions :
          (/\ validatePrescription(p)
           /\ prescriptions[p].status = PENDING
           /\ Len(FailingItems(prescriptions[p].items)) > 0)
          => LET failing == FailingItems(prescriptions[p].items)
                 reason == prescriptions'[p].rejectionReason
                 r == validatePrescriptionResult(DB, p, now)
             IN /\ prescriptions'[p].status = REJECTED
                /\ Len(reason) > 0
                /\ Len(Messages(reason)) = Len(failing)
                /\ \A k \in DOMAIN failing :
                      /\ Messages(reason)[k].medicineId = failing[k].medicineId
                      /\ (/\ Exists(medicines, failing[k].medicineId)
                          /\ medicines[failing[k].medicineId].isActive
                          /\ medicines[failing[k].medicineId].quantity < failing[k].quantity)
                         => /\ Messages(reason)[k].kind = "Insufficient stock"
                            /\ Messages(reason)[k].available
                                  = medicines[failing[k].medicineId].quantity
                            /\ Messages(reason)[k].required = failing[k].quantity
                /\ r.response.success = FALSE
                /\ r.response.code = 400]_vars

\* A rejected prescription whose reason holds two messages, one of them for an
\* item of quantity 3 against a stock of 2
C3_Witness ==
    \E p \in DOMAIN prescriptions :
        /\ prescriptions[p].status = REJECTED
        /\ Len(Messages(prescriptions[p].rejectionReason)) = 2
        /\ \E k \in DOMAIN prescriptions[p].rejectionReason :
              LET msg == prescriptions[p].rejectionReason[k] IN
              /\ IsMessage(msg)
              /\ msg.kind = "Insufficient stock"
              /\ msg.available = 2
              /\ msg.required = 3

\* C4: a validatePrescription call, whatever its outcome, leaves every medicine
\* and the transaction log as they were; and on a pending prescription whose
\* every item is satisfiable it sets the status to validated.
C4_ValidateNoStockMutation ==
    [][\A id \in IdInputs(prescriptions) :
          validatePrescription(id) =>
             /\ UNCHANGED <<medicines, transactions>>
             /\ (/\ Exists(prescriptions, id)
                 /\ prescriptions[id].status = PENDING
                 /\ Len(FailingItems(prescriptions[id].items)) = 0)
                => prescriptions'[id].status = VALIDATED]_vars

\* A validated prescription one of whose items asks for the whole stock
C4_Witness ==
    \E p \in DOMAIN prescriptions :
        /\ prescriptions[p].status = VALIDATED
        /\ prescriptions[p].validatedAt /= NoTime
        /\ \E i \in DOMAIN prescriptions[p].items :
              LET item == prescriptions[p].items[i] IN
              /\ Exists(medicines, item.medicineId)
              /\ medicines[item.medicineId].quantity = item.quantity

\* The status changes the prescription workflow allows
PrescriptionTransitions ==
    {<<PENDING, VALIDATED>>, <<PENDING, REJECTED>>, <<VALIDATED, DISPENSED>>}

\* C10: a prescription is created pending, no prescription is removed, and a
\* status only changes pending -> validated, pending -> rejected or
\* validated -> dispensed (so rejected and dispensed are never left and validated
\* never goes back to pending or to rejected).
C10_PrescriptionOneWay ==
    [][/\ DOMAIN prescriptions \subseteq DOMAIN prescriptions'
       /\ \A p \in DOMAIN prescriptions' :
             IF p \in DOMAIN prescriptions
             THEN \/ prescriptions'[p].status = prescriptions[p].status
                  \/ <<prescriptions[p].status, prescriptions'[p].status>>
                        \in PrescriptionTransitions
             ELSE prescriptions'[p].status = PENDING]_vars

\* A prescription that went pending -> validated -> dispensed
C10_Witness ==
    \E p \in DOMAIN prescriptions :
        /\ prescriptions[p].status = DISPENSED
        /\ prescriptions[p].validatedAt /= NoTime
        /\ prescriptions[p].dispensedAt /= NoTime


---------------------------------------------------------------------------
(* Properties of the reorder workflow *)

\* C5: in every reachable state each medicine has at most one reorder request
\* whose status is pending or approved. (Refuted: an ordered request no longer
\* counts as open, the sweep opens a second request for the same medicine, and
\* approveReorderRequest then sets the first one back to approved.)
C5_AtMostOneOpenRequest ==
    \A m \in DOMAIN medicines : Cardinality(OpenRequests(reorders, m)) <= 1

\* The medicines a sweep must leave with an open request: active, at or below
\* their threshold
IsLowStock(medicine) == medicine.quantity <= medicine.reorderThreshold

\* C6: from every reachable state, two sweeps in succession: the second one
\* creates no request and modifies none, each medicine then has at most one open
\* request, and exactly one if it is active, at or below its threshold and had
\* none before. (Refuted in the states C5 is refuted in, and for a medicine whose
\* stock a receive has made negative.)
C6_SweepTwiceIdempotent ==
    \A first \in NaturalOrders, second \in NaturalOrders :
        LET once == checkAndCreateReorderRequestsResult(DB, first)
            twice == checkAndCreateReorderRequestsResult(once, second)
        IN /\ twice = once
           /\ \A m \in DOMAIN medicines :
                 /\ Cardinality(OpenRequests(twice.reorders, m)) <= 1
                 /\ (/\ medicines[m].isActive
                     /\ IsLowStock(medicines[m])
                     /\ OpenRequests(reorders, m) = {})
                    => Cardinality(OpenRequests(twice.reorders, m)) = 1

\* C7: every request a sweep creates is pending, carries the quantity and the
\* threshold of its medicine as currentStock and reorderThreshold, and asks for
\* max(3 x reorderThreshold, 50); its medicine is active and at or below its
\* threshold.
C7_CreatedRequestFields ==
    [][\A natural \in NaturalOrders :
          checkAndCreateReorderRequests(natural) =>
             \A r \in DOMAIN reorders' \ DOMAIN reorders :
                LET request == reorders'[r]
                    medicine == medicines[request.medicineId]
                IN /\ request.status = R_PENDING
                   /\ request.currentStock = medicine.quantity
                   /\ request.reorderThreshold = medicine.reorderThreshold
                   /\ request.requestedQuantity
                         = Max(3 * medicine.reorderThreshold, 50)
                   /\ medicine.isActive
                   /\ IsLowStock(medicine)]_vars

\* Both sides of the maximum: quantity 5 with threshold 10 gives 50 (the floor),
\* quantity 2 with threshold 20 gives 60
C7_Witness ==
    /\ \E r \in DOMAIN reorders :
          /\ reorders[r].currentStock = 5
          /\ reorders[r].reorderThreshold = 10
          /\ reorders[r].requestedQuantity = 50
          /\ reorders[r].status = R_PENDING
    /\ \E r \in DOMAIN reorders :
          /\ reorders[r].currentStock = 2
          /\ reorders[r].reorderThreshold = 20
          /\ reorders[r].requestedQuantity = 60
          /\ reorders[r].status = R_PENDING

\* The request was approved, then ordered, and nothing was done to it since
ApprovedThenOrdered(request) ==
    /\ request.status = R_ORDERED
    /\ request.approvedAt /= NoTime
    /\ request.orderedAt /= NoTime

\* C8: a receive call on a request that was approved and then ordered raises the
\* linked medicine's quantity by exactly the receivedQuantity given, or by the
\* request's requestedQuantity when none is given, and sets the request received.
\* (Refuted: a receivedQuantity of 0 raises the stock by requestedQuantity.)
C8_ReceiveAddsGivenQuantity ==
    [][\A r \in DOMAIN reorders, receivedQuantity \in ReceivedQtys :
          (/\ markAsReceived(r, receivedQuantity)
           /\ ApprovedThenOrdered(reorders[r]))
          => LET m == reorders[r].medicineId
                 given == IF receivedQuantity = Absent
                          THEN reorders[r].requestedQuantity
                          ELSE receivedQuantity[1]
             IN /\ medicines'[m].quantity = medicines[m].quantity + given
                /\ reorders'[r].status = R_RECEIVED]_vars

\* pending -> approved -> ordered -> received
ReorderTransitions ==
    {<<R_PENDING, R_APPROVED>>, <<R_APPROVED, R_ORDERED>>, <<R_ORDERED, R_RECEIVED>>}

\* C9: no step changes the status of a stored reorder request other than along
\* pending -> approved -> ordered -> received, one step at a time. (Refuted: the
\* three service calls set their status whatever the current one is.)
C9_ReorderStatusForward ==
    [][\A r \in DOMAIN reorders :
          /\ r \in DOMAIN reorders'
          /\ \/ reorders'[r].status = reorders[r].status
             \/ <<reorders[r].status, reorders'[r].status>> \in ReorderTransitions]_vars

---------------------------------------------------------------------------
(* Properties of the stock and of the transaction log *)

\* C11: the quantity of every medicine is >= 0 in every reachable state.
\* (Refuted: markAsReceived passes a negative receivedQuantity on to the service,
\* whose $inc runs no validator.)
C11_QuantityNonNegative ==
    \A m \in DOMAIN medicines : medicines[m].quantity >= 0


\* The transactions a step appended for medicine m, in log order
AppendedFor(m) ==
    SelectSeq(SubSeq(transactions', Len(transactions) + 1, Len(transactions')),
              LAMBDA t : t.medicineId = m)

\* Transactions that account for a change from quantity before to quantity after:
\* at least one, each starting at the stock the one before it left
AccountsFor(txs, before, after) ==
    /\ Len(txs) >= 1
    /\ txs[1].previousStock = before
    /\ txs[Len(txs)].newStock = after
    /\ \A i \in 1..(Len(txs) - 1) : txs[i + 1].previousStock = txs[i].newStock

\* C12: every step that creates a medicine or changes a medicine's quantity
\* appends transactions for that medicine whose previousStock and newStock are
\* the quantity before and after (0 before for a created medicine). (Refuted:
\* markReorderRequestAsReceived changes the quantity and writes no transaction.)
C12_StockChangesLogged ==
    [][\A m \in DOMAIN medicines' :
          LET before == IF m \in DOMAIN medicines THEN medicines[m].quantity ELSE 0
              after == medicines'[m].quantity
          IN (m \notin DOMAIN medicines \/ after /= before)
             => AccountsFor(AppendedFor(m), before, after)]_vars


\* C13: the transaction log is append-only: after every step (a request on any
\* route, a sweep) the log before the step is a prefix of the log after it.
C13_LogAppendOnly ==
    [][/\ Len(transactions') >= Len(transactions)
       /\ SubSeq(transactions', 1, Len(transactions)) = transactions]_vars

\* A log that a creation, an update and a dispense have written to, with a
\* reorder request received since
C13_Witness ==
    /\ {transactions[i].type : i \in DOMAIN transactions}
          = {"purchase", "adjustment", "dispense"}
    /\ \E r \in DOMAIN reorders : reorders[r].status = R_RECEIVED
    /\ \E p \in DOMAIN prescriptions : prescriptions[p].status = DISPENSED


---------------------------------------------------------------------------
(* Properties of the middleware and of the route table *)

\* The ids and the bodies a request on a route can carry
IdsOf(route) ==
    CASE route \in {PUT_medicine, DELETE_medicine} -> IdInputs(medicines)
      [] route \in {POST_validate, POST_dispense} -> IdInputs(prescriptions)
      [] route \in {POST_approve, POST_order, POST_receive} -> IdInputs(reorders)
      [] OTHER -> {MissingId}

BodiesOf(route) ==
    CASE route = POST_medicines -> ApiMedicineBodies
      [] route = PUT_medicine -> QuantityUpdates
      [] route = POST_prescriptions -> ApiItemLists
      [] route = POST_receive -> ReceivedQtys
      [] OTHER -> {Absent}

Bearer(token) == <<[scheme |-> "Bearer ", token |-> <<token>>]>>

\* The user a header authenticates as (MissingId when it authenticates as none)
\* and the role stored for that user
UserOf(authHeader) == authenticate(env, authHeader).user
StoredRole(authHeader) == Users[UserOf(authHeader)].role

\* The roles the role gates admit on the gated routes
RolesAdmitted(route) ==
    IF route = DELETE_medicine THEN {"admin"} ELSE {"admin", "pharmacist"}

RoleGatedRoutes ==
    {DELETE_medicine, POST_validate, POST_dispense, POST_approve, POST_order,
     POST_receive} \cup AnalyticsRoutes

Environments == {[env EXCEPT !.JWT_SECRET = s] : s \in BOOLEAN}

\* The header is the string "Bearer " followed by a token
CarriesBearerToken(authHeader) ==
    /\ authHeader /= Absent
    /\ authHeader[1].scheme = "Bearer "
    /\ authHeader[1].token /= <<>>

\* The token of the header (which carries one) is signed by the server and has not expired
TokenVerifies(authHeader) ==
    /\ authHeader[1].token[1].signed
    /\ ~authHeader[1].token[1].expired

\* The id of the user the token of the header references
Referenced(authHeader) == authHeader[1].token[1].userId

\* C15: on every route, whatever the collections hold: the handler runs only
\* for a request whose header carries a Bearer token that verifies and
\* references a stored, active user, and then that user is the one attached to
\* the request; and on a server configured with its signing secret a missing or
\* malformed header, a token that is invalid or expired and a token of an
\* unknown user are answered 401, a token of a deactivated user 403.
C15_AuthenticatedOnly ==
    \A route \in Routes, h \in Headers, environment \in Environments :
        \A id \in IdsOf(route), body \in BodiesOf(route) :
            LET served == Serve(environment, DB, now, route, h, id, body) IN
            /\ served.ran =>
                  /\ CarriesBearerToken(h)
                  /\ TokenVerifies(h)
                  /\ Referenced(h) \in DOMAIN Users
                  /\ Users[Referenced(h)].isActive
                  /\ served.user = Referenced(h)
            /\ environment.JWT_SECRET =>
                  IF ~CarriesBearerToken(h) THEN served.response.code = 401
                  ELSE IF ~TokenVerifies(h) THEN served.response.code = 401
                  ELSE IF Referenced(h) \notin DOMAIN Users THEN served.response.code = 401
                  ELSE IF ~Users[Referenced(h)].isActive THEN served.response.code = 403
                  ELSE TRUE
            /\ ~served.ran => served.db = DB

\* A prescription is stored and pending: the pharmacist's token reaches the
\* validate handler as user 2, while the same request with an expired token,
\* with no header and with the token of the deactivated administrator does not
C15_Witness ==
    /\ Len(prescriptions) >= 1 /\ prescriptions[1].status = PENDING
    /\ LET ok == Serve(env, DB, now, POST_validate, Bearer(Token(2, PHARMACIST)), 1, Absent) IN
          ok.ran /\ ok.user = 2 /\ ok.db /= DB
    /\ LET late == Serve(env, DB, now, POST_validate,
                         Bearer([Token(1, ADMIN) EXCEPT !.expired = TRUE]), 1, Absent) IN
          ~late.ran /\ late.response.code = 401
    /\ ~Serve(env, DB, now, POST_validate, Absent, 1, Absent).ran
    /\ Serve(env, DB, now, POST_validate, Bearer(Token(4, ADMIN)), 1, Absent).response.code = 403


\* C16: a request authenticated as a user whose stored role is staff, on any
\* route and with any id and body, leaves the medicines, the prescriptions, the
\* reorder requests and the transaction log as they were.
C16_StaffReadOnly ==
    \A route \in Routes, h \in Headers :
        \A id \in IdsOf(route), body \in BodiesOf(route) :
            (UserOf(h) /= MissingId /\ StoredRole(h) = "staff")
                => Serve(env, DB, now, route, h, id, body).db = DB


---------------------------------------------------------------------------
(* Virtual fields of the Medicine model, with time counted in seconds *)

\* 1000 * 60 * 60 * 24 milliseconds
Day == 86400

\* Math.ceil(a / b) for b > 0
CeilAsFloor(a, b) == a \div b

Ceil(a, b) == -((-a) \div b)

daysUntilExpiry(medicine, today) ==
    LET diffTime == medicine.expiryDate - today IN Ceil(diffTime, Day)

isLowStock(medicine) == medicine.quantity <= medicine.reorderThreshold

isExpired(medicine, today) == medicine.expiryDate < today

isExpiringSoon(medicine, today) ==
    LET diffTime == medicine.expiryDate - today
        diffDays == Ceil(diffTime, Day)
    IN diffDays > 0 /\ diffDays <= 30

\* toJSON with virtuals: the virtual fields of a document read at time today
toJSON(medicine, today) ==
    [daysUntilExpiry |-> daysUntilExpiry(medicine, today),
     isLowStock |-> isLowStock(medicine),
     isExpired |-> isExpired(medicine, today),
     isExpiringSoon |-> isExpiringSoon(medicine, today)]

\* The documents read: stock below, at and above the threshold; expiry dates
\* around the time of the read, around one day and around thirty days after it
MaxClock == 2
VirtualQuantities == {0, 9, 10, 11}
VirtualThreshold == 10
ExpiryOffsets ==
    {-Day - 1, -Day, -1, 0, 1, Day - 1, Day, Day + 1, 29 * Day + 1,
     30 * Day - 1, 30 * Day, 30 * Day + 1, 31 * Day}

InitVirtuals ==
    /\ \E q \in VirtualQuantities, offset \in ExpiryOffsets :
          medicines = <<[quantity |-> q, reorderThreshold |-> VirtualThreshold,
                         isActive |-> TRUE, expiryDate |-> 2 * Day + offset]>>
    /\ prescriptions = <<>>
    /\ reorders = <<>>
    /\ transactions = <<>>
    /\ now = 2 * Day
    /\ env = [JWT_SECRET |-> TRUE, OPENROUTER_API_KEY |-> FALSE]
    /\ sweeps = [timer \in Timers |-> IdleSweep]
    /\ queryReply = <<>>
    /\ calls = [c \in Connections |-> IdleCall]

\* A read of the document
ReadMedicine ==
    /\ queryReply' = <<toJSON(medicines[1], now)>>
    /\ UNCHANGED <<medicines, prescriptions, reorders, transactions, now, env, sweeps, calls>>

\* The clock advances by a second; what was read before is discarded
ClockTick ==
    /\ now < 2 * Day + MaxClock
    /\ now' = now + 1
    /\ queryReply' = <<>>
    /\ UNCHANGED <<medicines, prescriptions, reorders, transactions, env, sweeps, calls>>

NextVirtuals == ReadMedicine \/ ClockTick

SpecVirtuals == InitVirtuals /\ [][NextVirtuals]_vars

\* C17: whenever a medicine is read, at whatever time: isLowStock is reported
\* exactly when the quantity is at most the reorder threshold; isExpired exactly
\* when the expiry date is before the time of the read; daysUntilExpiry is the
\* least whole number of days that reaches from the time of the read to the
\* expiry date; and isExpiringSoon exactly when that number is between 1 and 30,
\* that is when the expiry date is after the read and at most 30 days after it.
C17_Virtuals ==
    queryReply /= <<>> =>
        LET read == queryReply[1]
            medicine == medicines[1]
            left == medicine.expiryDate - now
        IN /\ read.isLowStock <=> (medicine.quantity <= medicine.reorderThreshold)
           /\ read.isExpired <=> (medicine.expiryDate < now)
           /\ read.daysUntilExpiry * Day >= left
           /\ (read.daysUntilExpiry - 1) * Day < left
           /\ read.isExpiringSoon <=> (0 < read.daysUntilExpiry /\ read.daysUntilExpiry <= 30)
           /\ read.isExpiringSoon <=> (0 < left /\ left <= 30 * Day)

\* A medicine that expires less than a day after the read, with stock at its
\* threshold, is read: one day left, expiring soon, low in stock, not expired
C17_Witness ==
    /\ queryReply /= <<>>
    /\ medicines[1].expiryDate - now \in 1..(Day - 1)
    /\ medicines[1].quantity = medicines[1].reorderThreshold
    /\ queryReply[1] = [daysUntilExpiry |-> 1, isLowStock |-> TRUE,
                        isExpired |-> FALSE, isExpiringSoon |-> TRUE]


---------------------------------------------------------------------------
(* Numbers of the analytics controller: IEEE 754 doubles *)

\* A 54-bit natural hi * 2^27 + lo, 0 <= lo < 2^27
Half == 134217728
Wide(hi, lo) == [hi |-> hi, lo |-> lo]

WideShl(p, bit) ==
    LET low == 2 * p.lo + bit IN Wide(2 * p.hi + low \div Half, low % Half)

WideGeq(p, q) == p.hi > q.hi \/ (p.hi = q.hi /\ p.lo >= q.lo)

WideSub(p, q) ==
    IF p.lo >= q.lo THEN Wide(p.hi - q.hi, p.lo - q.lo)
    ELSE Wide(p.hi - q.hi - 1, p.lo + Half - q.lo)

WideInc(p) == IF p.lo + 1 = Half THEN Wide(p.hi + 1, 0) ELSE Wide(p.hi, p.lo + 1)

RECURSIVE Pow2(_)
Pow2(k) == IF k = 0 THEN 1 ELSE 2 * Pow2(k - 1)

\* floor(p / 2^k)
WideShr(p, k) ==
    IF k >= 54 THEN 0
    ELSE IF k >= 27 THEN p.hi \div Pow2(k - 27)
    ELSE (p.hi * Pow2(27 - k)) + (p.lo \div Pow2(k))

\* The width of the significand of a double, and the significands 2^52 and 2^53
Precision == 53
MinSignificand == Wide(33554432, 0)
TopSignificand == Wide(67108864, 0)

\* A double: NaN, Infinity, 0, or the positive number m * 2^e with a 53-bit m
NaN == [kind |-> "NaN"]
Infinity == [kind |-> "Infinity"]
Zero == [kind |-> "0"]
Finite(m, e) == [kind |-> "finite", m |-> m, e |-> e]

\* Round to nearest, ties to even: the 53 bits m of a quotient at exponent e,
\* with remainder r of the divisor y left
RoundDown(m, e, r, y) == Finite(m, e)

RoundNearestEven(m, e, r, y) ==
    LET twice == WideShl(r, 0)
        up == IF twice = y THEN m.lo % 2 = 1 ELSE WideGeq(twice, y)
        rounded == IF up THEN WideInc(m) ELSE m
    IN IF rounded = TopSignificand THEN Finite(MinSignificand, e + 1)
       ELSE Finite(rounded, e)

\* The quotient r / y of 0 < r < y bit by bit, from q = [r, y, m, count, e]: r
\* is what is left to divide, m holds the count bits found from the leading 1
\* on, the last of them of weight 2^e. NextBit finds one more bit
NextBit(q) ==
    IF q.count = Precision THEN q
    ELSE LET twice == WideShl(q.r, 0)
             bit == IF WideGeq(twice, q.y) THEN 1 ELSE 0
             rest == IF bit = 1 THEN WideSub(twice, q.y) ELSE twice
         IN IF q.count = 0 /\ bit = 0
            THEN [q EXCEPT !.r = rest, !.e = @ - 1]
            ELSE [q EXCEPT !.r = rest, !.m = WideShl(@, bit),
                           !.count = @ + 1, !.e = @ - 1]

NextByte(q) == NextBit(NextBit(NextBit(NextBit(NextBit(NextBit(NextBit(NextBit(q))))))))

RECURSIVE Quotient(_)
Quotient(q) ==
    IF q.count = Precision THEN RoundNearestEven(q.m, q.e, q.r, q.y)
    ELSE Quotient(NextByte(q))

\* The division of the integer x by the 54-bit y > x
Divide(x, y) ==
    Quotient([r |-> Wide(0, x), y |-> y, m |-> Wide(0, 0), count |-> 0, e |-> 0])

\* x / y for integers x >= 0 and y >= 0 below 2^27
DivideIntegers(x, y) ==
    IF y = 0 THEN (IF x = 0 THEN NaN ELSE Infinity)
    ELSE IF x = 0 THEN Zero
    ELSE LET q == Divide(x, Wide(y, 0))
         IN Finite(q.m, q.e + 27)

\* x / a for an integer 0 < x < 2^27 and a double a
DivideByDouble(x, a) ==
    CASE a.kind = "NaN" -> NaN
      [] a.kind = "Infinity" -> Zero
      [] a.kind = "0" -> Infinity
      [] a.kind = "finite" ->
            LET q == Divide(x, a.m)
            IN Finite(q.m, q.e - a.e)

\* a > 0
IsPositive(a) == a.kind \in {"finite", "Infinity"}

\* Math.floor(a) of a double below 2^31
Floor(a) ==
    CASE a.kind = "0" -> 0
      [] a.kind = "finite" -> WideShr(a.m, -a.e)

\* a * 30 for a double a >= 0: 15 times the significand, brought back to 53
\* bits with round to nearest, ties to even, at an exponent one higher
Times30(a) ==
    IF a.kind /= "finite" THEN a
    ELSE LET low == a.m.lo * 15
             p == Wide(a.m.hi * 15 + low \div Half, low % Half)
             k == IF p.hi < 536870912 THEN 3 ELSE 4
             m == Wide(p.hi \div Pow2(k),
                       (p.hi % Pow2(k)) * Pow2(27 - k) + p.lo \div Pow2(k))
             rest == p.lo % Pow2(k)
             up == IF rest = Pow2(k - 1) THEN m.lo % 2 = 1 ELSE rest > Pow2(k - 1)
             rounded == IF up THEN WideInc(m) ELSE m
         IN IF rounded = TopSignificand THEN Finite(MinSignificand, a.e + k + 2)
            ELSE Finite(rounded, a.e + k + 1)


---------------------------------------------------------------------------
(* Analytics controller *)

\* A Transaction with its createdAt timestamp
TxAt(mid, type, qty, prev, new, createdAt) ==
    [medicineId |-> mid, type |-> type, quantity |-> qty, previousStock |-> prev,
     newStock |-> new, prescriptionId |-> MissingId, createdAt |-> createdAt]

RECURSIVE TotalQuantity(_)
TotalQuantity(txs) ==
    IF txs = <<>> THEN 0 ELSE Head(txs).quantity + TotalQuantity(Tail(txs))

\* req.query.days: <<>> when absent (the default '30' applies), else <<n>>
DefaultDays == 30

getDemandTrendsResult(db, medicineId, days, today) ==
    LET daysNum == IF days = Absent THEN DefaultDays ELSE days[1] IN
    IF medicineId = Absent \/ ~IsValidObjectId(medicineId[1])
    THEN Reply(400, FALSE, "Valid medicine ID is required")
    ELSE LET id == medicineId[1]
             endDate == today
             startDate == today - daysNum * Day
             found == SelectSeq(db.transactions, LAMBDA t :
                          /\ t.medicineId = id
                          /\ t.type \in {"sale", "dispense"}
                          /\ t.createdAt >= startDate
                          /\ t.createdAt <= endDate)
             totalDemand == TotalQuantity(found)
             averageDailyDemand == DivideIntegers(totalDemand, daysNum)
             predictedDemand == Times30(averageDailyDemand)
             currentStock == IF Exists(db.medicines, id) THEN db.medicines[id].quantity ELSE 0
             daysUntilStockout ==
                 IF currentStock > 0 /\ IsPositive(averageDailyDemand)
                 THEN Floor(DivideByDouble(currentStock, averageDailyDemand))
                 ELSE 0
         IN [code |-> 200, success |-> TRUE, medicineId |-> id, days |-> daysNum,
             total |-> totalDemand, averageDaily |-> averageDailyDemand,
             next30Days |-> predictedDemand,
             daysUntilStockout |-> daysUntilStockout, currentStock |-> currentStock]

getDemandTrends(medicineId, days) ==
    /\ queryReply' = <<getDemandTrendsResult(DB, medicineId, days, now)>>
    /\ UNCHANGED <<medicines, prescriptions, reorders, transactions, now, env, sweeps, calls>>

\* The stock of the medicine read, what was dispensed of it three days before
\* the read and forty days before it (0 for nothing), and the days asked for
TrendStocks == {0, 7, 23}
TrendDispensed == {0, 7, 23}
TrendDays == {Absent, <<0>>, <<1>>, <<7>>, <<30>>, <<365>>}
TrendIds == {Absent, <<InvalidId>>, <<1>>, <<2>>}
TrendClock == 50

\* The log of a medicine bought at time 0 and then dispensed from, leaving stock
TrendLog(stock, recent, old, today) ==
    <<TxAt(1, "purchase", stock + recent + old, 0, stock + recent + old, 0)>>
    \o (IF old = 0 THEN <<>>
        ELSE <<TxAt(1, "dispense", old, stock + recent + old, stock + recent,
                    today - 40 * Day)>>)
    \o (IF recent = 0 THEN <<>>
        ELSE <<TxAt(1, "dispense", recent, stock + recent, stock, today - 3 * Day)>>)

InitTrends ==
    /\ now = TrendClock * Day
    /\ \E stock \in TrendStocks, recent \in TrendDispensed, old \in TrendDispensed :
          /\ medicines = <<[quantity |-> stock, reorderThreshold |-> 10,
                            isActive |-> TRUE, expiryDate |-> 2 * TrendClock * Day]>>
          /\ transactions = TrendLog(stock, recent, old, now)
    /\ prescriptions = <<>>
    /\ reorders = <<>>
    /\ env = [JWT_SECRET |-> TRUE, OPENROUTER_API_KEY |-> FALSE]
    /\ sweeps = [timer \in Timers |-> IdleSweep]
    /\ queryReply = <<>>
    /\ calls = [c \in Connections |-> IdleCall]

NextTrends == \E id \in TrendIds, days \in TrendDays : getDemandTrends(id, days)

SpecTrends == InitTrends /\ [][NextTrends]_vars

\* x / a for an integer 0 <= x < 2^27 and a double a > 0
StockOverDemand(x, a) == IF x = 0 THEN Zero ELSE DivideByDouble(x, a)

\* Math.ceil(predictedDemand + safetyStock) > 0, for a predicted demand that is
\* not negative and an integer safetyStock >= 0: the sum is NaN, or it is
\* positive exactly when one of the two is
RecommendedQuantityPositive(predictedDemand, safetyStock) ==
    /\ predictedDemand.kind /= "NaN"
    /\ IsPositive(predictedDemand) \/ safetyStock > 0

\* if (daysUntilStockout <= 7) ... else if (<= 14) ... else if (<= 30) ...
UrgencyShiftedTiers(daysUntilStockout) ==
    IF daysUntilStockout < 7 THEN "critical"
    ELSE IF daysUntilStockout < 14 THEN "high"
    ELSE IF daysUntilStockout < 30 THEN "medium"
    ELSE "low"

Urgency(daysUntilStockout) ==
    IF daysUntilStockout <= 7 THEN "critical"
    ELSE IF daysUntilStockout <= 14 THEN "high"
    ELSE IF daysUntilStockout <= 30 THEN "medium"
    ELSE "low"

\* The value reported when the average daily demand is not positive
NoStockout == 999

\* One pass of the loop of getReorderRecommendations, for the medicine with id
\* m: <<>> if nothing is pushed, else the recommendation pushed
Recommendation(db, m, daysNum, today) ==
    LET medicine == db.medicines[m]
        endDate == today
        startDate == today - daysNum * Day
        found == SelectSeq(db.transactions, LAMBDA t :
                     /\ t.medicineId = m
                     /\ t.type \in {"sale", "dispense"}
                     /\ t.createdAt >= startDate
                     /\ t.createdAt <= endDate)
        totalDemand == TotalQuantity(found)
        averageDailyDemand == DivideIntegers(totalDemand, daysNum)
        predictedDemand == Times30(averageDailyDemand)
        safetyStock == medicine.reorderThreshold
        daysUntilStockout ==
            IF IsPositive(averageDailyDemand)
            THEN Floor(StockOverDemand(medicine.quantity, averageDailyDemand))
            ELSE NoStockout
        urgency == Urgency(daysUntilStockout)
    IN IF /\ RecommendedQuantityPositive(predictedDemand, safetyStock)
          /\ (medicine.quantity <= medicine.reorderThreshold \/ daysUntilStockout <= 60)
       THEN <<[medicineId |-> m, currentStock |-> medicine.quantity,
               reorderThreshold |-> medicine.reorderThreshold,
               averageDailyDemand |-> averageDailyDemand,
               predictedDemand |-> predictedDemand,
               daysUntilStockout |-> daysUntilStockout,
               urgency |-> urgency, priority |-> medicine.priority]>>
       ELSE <<>>

\* The loop over Medicine.find({isActive: true}), medicines m..Len(db.medicines)
RECURSIVE RecommendationsFrom(_, _, _, _)
RecommendationsFrom(db, m, daysNum, today) ==
    IF m > Len(db.medicines) THEN <<>>
    ELSE (IF db.medicines[m].isActive THEN Recommendation(db, m, daysNum, today)
          ELSE <<>>)
         \o RecommendationsFrom(db, m + 1, daysNum, today)

urgencyOrder == [critical |-> 0, high |-> 1, medium |-> 2, low |-> 3]
priorityOrder == [critical |-> 0, high |-> 1, medium |-> 2, low |-> 3]

\* The comparator handed to recommendations.sort
CompareRecommendations(a, b) ==
    LET urgencyDiff == urgencyOrder[a.urgency] - urgencyOrder[b.urgency] IN
    IF urgencyDiff /= 0 THEN urgencyDiff
    ELSE priorityOrder[a.priority] - priorityOrder[b.priority]

\* Array.prototype.sort with that comparator: a stable sort, here by insertion
\* of entry behind every entry of sorted that does not compare greater
InsertRecommendation(entry, sorted) ==
    LET behind == {i \in DOMAIN sorted : CompareRecommendations(sorted[i], entry) <= 0}
        at == Cardinality(behind)
    IN SubSeq(sorted, 1, at) \o <<entry>> \o SubSeq(sorted, at + 1, Len(sorted))

RECURSIVE SortRecommendations(_)
SortRecommendations(list) ==
    IF list = <<>> THEN <<>>
    ELSE InsertRecommendation(list[Len(list)],
                              SortRecommendations(SubSeq(list, 1, Len(list) - 1)))

getReorderRecommendationsResult(db, days, today) ==
    LET daysNum == IF days = Absent THEN DefaultDays ELSE days[1] IN
    [code |-> 200, success |-> TRUE, days |-> daysNum,
     recommendations |-> SortRecommendations(RecommendationsFrom(db, 1, daysNum, today))]

getReorderRecommendations(days) ==
    /\ queryReply' = <<getReorderRecommendationsResult(DB, days, now)>>
    /\ UNCHANGED <<medicines, prescriptions, reorders, transactions, now, env, sweeps, calls>>

\* The stock, threshold and priority of the medicines the recommendations are
\* asked for, and what was dispensed of each three days before
RecommendThresholds == {0, 10, 30}
RecommendPriorities == {"critical", "low"}
RecommendDays == {Absent, <<0>>, <<7>>, <<14>>}

\* The log of medicine m bought at time 0 and dispensed from, leaving stock
RecommendLog(m, stock, recent, today) ==
    <<TxAt(m, "purchase", stock + recent, 0, stock + recent, 0)>>
    \o (IF recent = 0 THEN <<>>
        ELSE <<TxAt(m, "dispense", recent, stock + recent, stock, today - 3 * Day)>>)

RecommendMedicine(stock, threshold, priority, active) ==
    [quantity |-> stock, reorderThreshold |-> threshold, isActive |-> active,
     expiryDate |-> 2 * TrendClock * Day, priority |-> priority]

InitRecommend ==
    /\ now = TrendClock * Day
    /\ \E first \in TrendStocks \X TrendDispensed \X RecommendPriorities,
          second \in TrendStocks \X TrendDispensed \X RecommendThresholds \X BOOLEAN :
          /\ medicines = <<RecommendMedicine(first[1], 10, first[3], TRUE),
                           RecommendMedicine(second[1], second[3], "critical", second[4])>>
          /\ transactions = RecommendLog(1, first[1], first[2], now)
                               \o RecommendLog(2, second[1], second[2], now)
    /\ prescriptions = <<>>
    /\ reorders = <<>>
    /\ env = [JWT_SECRET |-> TRUE, OPENROUTER_API_KEY |-> FALSE]
    /\ sweeps = [timer \in Timers |-> IdleSweep]
    /\ queryReply = <<>>
    /\ calls = [c \in Connections |-> IdleCall]

NextRecommend ==
    \/ \E id \in TrendIds, days \in RecommendDays : getDemandTrends(id, days)
    \/ \E days \in RecommendDays : getReorderRecommendations(days)

SpecRecommend == InitRecommend /\ [][NextRecommend]_vars

\* C18: every answer of getDemandTrends reports an average daily demand that is
\* a number (no division by zero took place), and a daysUntilStockout that is 0
\* when nothing was sold or dispensed in the window or no stock is left, and
\* otherwise the whole part of currentStock / (total / days), that is the
\* largest d with d * total <= currentStock * days.
C18_DaysUntilStockout ==
    (queryReply /= <<>> /\ queryReply[1].code = 200) =>
        LET data == queryReply[1] IN
        /\ data.averageDaily.kind \notin {"NaN", "Infinity"}
        /\ IF data.total = 0 \/ data.currentStock = 0
           THEN data.daysUntilStockout = 0
           ELSE /\ data.daysUntilStockout * data.total <= data.currentStock * data.days
                /\ (data.daysUntilStockout + 1) * data.total > data.currentStock * data.days


---------------------------------------------------------------------------
(* Chatbot service *)

\* A Medicine document with the fields the chatbot selects
Drug(name, category, quantity, expiryDate, active) ==
    [name |-> name, category |-> category, quantity |-> quantity,
     reorderThreshold |-> 10, isActive |-> active, expiryDate |-> expiryDate]

Min(a, b) == IF a <= b THEN a ELSE b

\* The client built when the module is loaded: null without OPENROUTER_API_KEY
openai(environment) == environment.OPENROUTER_API_KEY

\* if (!openai || !process.env.OPENROUTER_API_KEY)
UseFallbackWithKey(environment) ==
    openai(environment) /\ environment.OPENROUTER_API_KEY

UseFallback(environment) ==
    ~openai(environment) \/ ~environment.OPENROUTER_API_KEY

\* Medicine.find(...).limit(n).lean(): the first n of the documents found
Limit(found, n) == SubSeq(found, 1, Min(n, Len(found)))

\* The ids of the active medicines a search can return, in natural order: any
\* selection of them, none included (no match, or the search threw and [] was
\* returned)
RECURSIVE Selections(_, _)
Selections(db, from) ==
    IF from > Len(db.medicines) THEN {<<>>}
    ELSE LET rest == Selections(db, from + 1) IN
         IF db.medicines[from].isActive
         THEN rest \cup {<<from>> \o s : s \in rest}
         ELSE rest

\* getAlternatives once findOne returned first (<<>> for null, <<id>> else): the
\* active, stocked medicines of the same category other than it, five at most
getAlternatives(db, first) ==
    IF first = <<>> THEN <<>>
    ELSE Limit(SelectSeq([i \in DOMAIN db.medicines |-> i], LAMBDA i :
                   /\ db.medicines[i].category = db.medicines[first[1]].category
                   /\ i /= first[1]
                   /\ db.medicines[i].isActive
                   /\ db.medicines[i].quantity > 0), 5)

Names(db, ids) == [i \in DOMAIN ids |-> db.medicines[ids[i]].name]

\* The fallback branch of processChatbotQuery; sampled is what the query for
\* sample medicines returned
FallbackResponse(db, query, found, alternatives, sampled, today) ==
    IF Len(found) > 0
    THEN LET med == db.medicines[found[1]] IN
         [text |-> "I found {n} medicine(s) matching {query}.",
          n |-> Len(found), query |-> query, name |-> med.name,
          stock |-> med.quantity, expired |-> med.expiryDate < today,
          daysUntilExpiry |-> Ceil(med.expiryDate - today, Day),
          others |-> Names(db, SubSeq(found, 2, Min(4, Len(found))))]
    ELSE IF Len(alternatives) > 0
    THEN [text |-> "I couldn't find an exact match for {query}, but here are some alternatives in the same category:",
          query |-> query, alternatives |-> Names(db, alternatives)]
    ELSE IF Len(sampled) > 0
    THEN [text |-> "I couldn't find any medicines matching {query}. Here are some available categories: {categories}.",
          query |-> query,
          categories |-> {db.medicines[sampled[i]].category : i \in DOMAIN sampled}]
    ELSE [text |-> "I couldn't find any medicines matching {query}. Please try a different search term, check the available categories, or contact the pharmacy staff for assistance.",
          query |-> query]

\* The catch block: searchMedicines once more, which returns again
CaughtResponse(db, again) ==
    IF Len(again) > 0
    THEN [text |-> "I found {n} medicine(s). {name} is available with {quantity} units in stock.",
          n |-> Len(again), name |-> db.medicines[again[1]].name,
          quantity |-> db.medicines[again[1]].quantity]
    ELSE [text |-> "I apologize, but I encountered an error processing your query. Please try rephrasing your question or contact the pharmacy staff for assistance."]

\* What the completion API does when called: it answers content, answers no
\* content, or the call throws
Completions == {"content", "", "throws"}

\* What the query for sample medicines does when made: it returns or throws
Samplings == {"returns", "throws"}

\* processChatbotQuery: found and first are what the searches of
\* searchMedicines and of getAlternatives return, completion what the API does
\* if it is called, sampling what the query for sample medicines does if it is
\* made, again what the search of the catch block returns. The outcome: the
\* string returned and whether the API was called
processChatbotQueryResult(environment, db, query, found, first, completion, sampling, again, today) ==
    LET medicinesFound == Limit(found, 10)
        alternatives == getAlternatives(db, first)
        sampled == Limit(SelectSeq([i \in DOMAIN db.medicines |-> i],
                                   LAMBDA i : db.medicines[i].isActive), 5)
    IN IF UseFallback(environment)
       THEN IF Len(medicinesFound) = 0 /\ Len(alternatives) = 0 /\ sampling = "throws"
            THEN [response |-> CaughtResponse(db, Limit(again, 10)), called |-> FALSE]
            ELSE [response |-> FallbackResponse(db, query, medicinesFound, alternatives,
                                                sampled, today),
                  called |-> FALSE]
       ELSE IF completion = "throws"
       THEN [response |-> CaughtResponse(db, Limit(again, 10)), called |-> TRUE]
       ELSE IF completion = ""
       THEN [response |-> [text |-> "I apologize, but I could not process your query at this time."],
             called |-> TRUE]
       ELSE [response |-> [text |-> completion], called |-> TRUE]

\* The arguments of the last call, kept with its outcome
processChatbotQuery(query, found, first, completion, sampling, again) ==
    /\ queryReply' = <<[query |-> query, found |-> found, first |-> first,
                        sampling |-> sampling,
                        outcome |-> processChatbotQueryResult(env, DB, query, found, first,
                                                              completion, sampling, again, now)]>>
    /\ UNCHANGED <<medicines, prescriptions, reorders, transactions, now, env, sweeps, calls>>

\* The stock the chatbot is asked about: two medicines of one category, a third
\* of another that has expired, and one that was deleted
ChatClock == 10
ChatStock ==
    <<Drug("Paracetamol", "Analgesic", 5, (ChatClock + 3) * Day, TRUE),
      Drug("Ibuprofen", "Analgesic", 4, (ChatClock + 40) * Day, TRUE),
      Drug("Amoxicillin", "Antibiotic", 7, (ChatClock - 1) * Day, TRUE),
      Drug("Aspirin", "Analgesic", 9, (ChatClock + 40) * Day, FALSE)>>
Queries == {"paracetamol", "something for a headache"}

InitChat ==
    /\ \E n \in 0..Len(ChatStock) : medicines = SubSeq(ChatStock, 1, n)
    /\ prescriptions = <<>>
    /\ reorders = <<>>
    /\ transactions = <<>>
    /\ now = ChatClock * Day
    /\ \E key \in BOOLEAN : env = [JWT_SECRET |-> TRUE, OPENROUTER_API_KEY |-> key]
    /\ sweeps = [timer \in Timers |-> IdleSweep]
    /\ queryReply = <<>>
    /\ calls = [c \in Connections |-> IdleCall]

NextChat ==
    \E query \in Queries, found \in Selections(DB, 1), again \in Selections(DB, 1),
       first \in {<<>>} \cup {<<i>> : i \in {j \in DOMAIN medicines : medicines[j].isActive}},
       completion \in Completions, sampling \in Samplings :
          processChatbotQuery(query, found, first, completion, sampling, again)

SpecChat == InitChat /\ [][NextChat]_vars

\* C19: on a server without the completion credential, every call of
\* processChatbotQuery returns without calling the completion API, and what it
\* returns is a non-empty template: about the first medicine found when the
\* search found some; listing the alternatives when the search found none and
\* there are alternatives; and otherwise, the database answering, a no-result
\* message for the query.
C19_FallbackWithoutCredential ==
    (queryReply /= <<>> /\ ~env.OPENROUTER_API_KEY) =>
        LET call == queryReply[1]
            said == call.outcome.response
            alternatives == getAlternatives(DB, call.first)
        IN /\ ~call.outcome.called
           /\ said.text /= ""
           /\ IF call.found /= <<>>
              THEN /\ said.query = call.query
                   /\ said.n = Len(call.found)
                   /\ said.name = medicines[call.found[1]].name
                   /\ said.stock = medicines[call.found[1]].quantity
              ELSE IF alternatives /= <<>>
              THEN /\ said.query = call.query
                   /\ DOMAIN said = {"text", "query", "alternatives"}
                   /\ said.alternatives = Names(DB, alternatives)
              ELSE call.sampling = "returns" =>
                   /\ said.query = call.query
                   /\ DOMAIN said \subseteq {"text", "query", "categories"}
                   /\ said.text \in {
                        "I couldn't find any medicines matching {query}. Here are some available categories: {categories}.",
                        "I couldn't find any medicines matching {query}. Please try a different search term, check the available categories, or contact the pharmacy staff for assistance."}

\* Without the credential, a search that found nothing while Paracetamol was
\* taken as the medicine asked about is answered with its alternatives
C19_Witness ==
    /\ queryReply /= <<>>
    /\ ~env.OPENROUTER_API_KEY
    /\ queryReply[1].found = <<>>
    /\ queryReply[1].first = <<1>>
    /\ Len(medicines) = 4
    /\ ~queryReply[1].outcome.called
    /\ queryReply[1].outcome.response.alternatives = <<"Ibuprofen">>


---------------------------------------------------------------------------
(* The two scheduled sweeps, step by step *)

\* The next medicine from m on that the loop of the sweep stops at: active and
\* at or below its threshold (Len(meds) + 1 when there is none)
RECURSIVE NextLow(_, _)
NextLow(meds, m) ==
    IF m > Len(meds) THEN m
    ELSE IF meds[m].isActive /\ meds[m].quantity <= meds[m].reorderThreshold THEN m
    ELSE NextLow(meds, m + 1)

\* The sweep goes on to the medicine at m of its list, or ends
Onward(sweep, m) ==
    LET next == NextLow(sweep.medicines, m) IN
    [sweep EXCEPT !.pc = IF next > Len(sweep.medicines) THEN "done" ELSE "find",
                  !.m = next, !.existingRequest = MissingId]

\* A timer fires: its callback calls checkAndCreateReorderRequests, which
\* issues Medicine.find
Fire(timer) ==
    /\ sweeps[timer].pc \in {"idle", "done"}
    /\ sweeps' = [sweeps EXCEPT ![timer] = [IdleSweep EXCEPT !.pc = "list"]]
    /\ UNCHANGED <<medicines, prescriptions, reorders, transactions, now, env, queryReply, calls>>

\* Medicine.find({isActive: true}).lean() returns: the sweep holds the
\* medicines as they are now and enters its loop
ListMedicines(timer) ==
    /\ sweeps[timer].pc = "list"
    /\ sweeps' = [sweeps EXCEPT ![timer] = Onward([@ EXCEPT !.medicines = medicines], 1)]
    /\ UNCHANGED <<medicines, prescriptions, reorders, transactions, now, env, queryReply, calls>>

\* ReorderRequest.findOne returns for the medicine the loop is at: with a
\* request whose currentStock is the medicine's the loop goes on, else a write
\* is issued
FindExisting(timer, natural) ==
    LET sweep == sweeps[timer]
        medicine == sweep.medicines[sweep.m]
        existingRequest == FindOpenRequest(reorders, sweep.m, natural)
    IN /\ sweep.pc = "find"
       /\ sweeps' = [sweeps EXCEPT ![timer] =
             IF /\ existingRequest /= MissingId
                /\ reorders[existingRequest].currentStock = medicine.quantity
             THEN Onward(sweep, sweep.m + 1)
             ELSE [sweep EXCEPT !.pc = "write", !.existingRequest = existingRequest]]
       /\ UNCHANGED <<medicines, prescriptions, reorders, transactions, now, env, queryReply, calls>>

\* The write the sweep issued is done: findByIdAndUpdate of the request found,
\* or ReorderRequest.create when none was found; a throw ends the sweep
WriteRequest(timer) ==
    LET sweep == sweeps[timer]
        medicine == sweep.medicines[sweep.m]
        request == [medicineId |-> sweep.m,
                    currentStock |-> medicine.quantity,
                    reorderThreshold |-> medicine.reorderThreshold,
                    requestedQuantity |-> RequestedQuantity(medicine.reorderThreshold),
                    status |-> R_PENDING,
                    approvedAt |-> NoTime, orderedAt |-> NoTime, receivedAt |-> NoTime]
    IN /\ sweep.pc = "write"
       /\ IF sweep.existingRequest /= MissingId
          THEN /\ reorders' = [reorders EXCEPT ![sweep.existingRequest].currentStock =
                                                    medicine.quantity]
               /\ sweeps' = [sweeps EXCEPT ![timer] = Onward(sweep, sweep.m + 1)]
          ELSE IF ReorderRequestValid(request)
          THEN /\ reorders' = Append(reorders, request)
               /\ sweeps' = [sweeps EXCEPT ![timer] = Onward(sweep, sweep.m + 1)]
          ELSE /\ reorders' = reorders
               /\ sweeps' = [sweeps EXCEPT ![timer] = [sweep EXCEPT !.pc = "done"]]
       /\ UNCHANGED <<medicines, prescriptions, transactions, now, env, queryReply, calls>>

\* The medicines the sweeps run over: low in stock or not
SweepMedicineInputs == {[quantity |-> 5, reorderThreshold |-> 10],
                        [quantity |-> 30, reorderThreshold |-> 10]}
MaxSweepMeds == 2

InitSweeps ==
    /\ \E n \in 1..MaxSweepMeds : \E stock \in [1..n -> SweepMedicineInputs] :
          medicines = [i \in 1..n |->
                          [quantity |-> stock[i].quantity,
                           reorderThreshold |-> stock[i].reorderThreshold,
                           isActive |-> TRUE, expiryDate |-> FarFuture]]
    /\ prescriptions = <<>>
    /\ reorders = <<>>
    /\ transactions = <<>>
    /\ now = 0
    /\ env = [JWT_SECRET |-> TRUE, OPENROUTER_API_KEY |-> FALSE]
    /\ sweeps = [timer \in Timers |-> IdleSweep]
    /\ queryReply = <<>>
    /\ calls = [c \in Connections |-> IdleCall]

NextSweeps ==
    \/ \E timer \in Timers : Fire(timer)
    \/ \E timer \in Timers : ListMedicines(timer)
    \/ \E timer \in Timers, natural \in NaturalOrders : FindExisting(timer, natural)
    \/ \E timer \in Timers : WriteRequest(timer)

SpecSweeps == InitSweeps /\ [][NextSweeps]_vars

\* C20: whenever no sweep is running, whatever sweeps of the two timers ran
\* before and however their steps interleaved, no medicine has more than one
\* open (pending or approved) reorder request.
C20_ConcurrentSweepsOneOpenRequest ==
    (\A timer \in Timers : sweeps[timer].pc \in {"idle", "done"})
        => \A m \in DOMAIN medicines : Cardinality(OpenRequests(reorders, m)) <= 1


---------------------------------------------------------------------------
(* Properties of a dispense that fails part-way, and of calls out of order *)

\* Item k of items is the first that cannot be served from the current stock:
\* its medicine is missing, or the items up to it ask more of it than is there,
\* while every earlier item can be served
FirstToFail(items, k) ==
    LET short(i) == \/ ~Exists(medicines, items[i].medicineId)
                    \/ Demand(SubSeq(items, 1, i), items[i].medicineId)
                          > medicines[items[i].medicineId].quantity
    IN /\ k \in DOMAIN items
       /\ short(k)
       /\ \A i \in 1..(k - 1) : ~short(i)

\* C23: a dispense call on a validated prescription whose item k is the first
\* that cannot be served is answered 500 with success false; the items before
\* k stay debited and logged (each medicine is down by what those items ask of
\* it, one dispense transaction per such item is appended in item order);
\* nothing is debited or logged for item k and the later items; and the
\* prescription stays validated.
C23_PartialDispenseNotRolledBack ==
    \A p \in DOMAIN prescriptions : \A k \in DOMAIN prescriptions[p].items :
        (prescriptions[p].status = VALIDATED /\ FirstToFail(prescriptions[p].items, k)) =>
            LET items == prescriptions[p].items
                before == SubSeq(items, 1, k - 1)
                r == dispensePrescriptionResult(DB, p, now)
                n == Len(transactions)
            IN /\ r.response.code = 500
               /\ r.response.success = FALSE
               /\ r.db.prescriptions = prescriptions
               /\ r.db.prescriptions[p].status = VALIDATED
               /\ DOMAIN r.db.medicines = DOMAIN medicines
               /\ \A m \in DOMAIN medicines :
                     r.db.medicines[m] =
                        [medicines[m] EXCEPT !.quantity = @ - Demand(before, m)]
               /\ Len(r.db.transactions) = n + (k - 1)
               /\ SubSeq(r.db.transactions, 1, n) = transactions
               /\ \A i \in 1..(k - 1) :
                     /\ r.db.transactions[n + i].type = "dispense"
                     /\ r.db.transactions[n + i].medicineId = items[i].medicineId
                     /\ r.db.transactions[n + i].quantity = items[i].quantity
                     /\ r.db.transactions[n + i].prescriptionId = p

\* A dispense call failed at its second item: the prescription is still
\* validated and the debit of its first item is in the log and in the stock
C23_Witness ==
    \E p \in DOMAIN prescriptions :
        /\ prescriptions[p].status = VALIDATED
        /\ Len(prescriptions[p].items) = 2
        /\ \E i \in DOMAIN transactions :
              /\ transactions[i].type = "dispense"
              /\ transactions[i].prescriptionId = p
              /\ transactions[i].medicineId = prescriptions[p].items[1].medicineId
              /\ medicines[transactions[i].medicineId].quantity = transactions[i].newStock


\* C24: through the router, as an administrator or a pharmacist, a receive
\* call on a stored reorder request whose status is not ordered, and an order
\* call on one whose status is not approved, are answered with an error and
\* leave the request and every medicine as they were.
C24_OutOfOrderRejected ==
    \A r \in DOMAIN reorders, u \in {1, 2} :
        LET h == Bearer(Token(u, Users[u].role))
            received == Serve(env, DB, now, POST_receive, h, r, Absent)
            ordered == Serve(env, DB, now, POST_order, h, r, Absent)
        IN /\ reorders[r].status /= R_ORDERED =>
                 /\ ~received.response.success
                 /\ received.db.reorders[r].status = reorders[r].status
                 /\ received.db.medicines = medicines
           /\ reorders[r].status /= R_APPROVED =>
                 /\ ~ordered.response.success
                 /\ ordered.db.reorders[r].status = reorders[r].status
                 /\ ordered.db.medicines = medicines

\* C28: a receive call, with whatever receivedQuantity, on a reorder request
\* that is already received leaves the quantity of every medicine as it was.
C28_ReceiveAddsStockOnce ==
    \A r \in DOMAIN reorders, rq \in ReceivedQtys :
        reorders[r].status = R_RECEIVED =>
            LET again == markAsReceivedResult(DB, r, rq, now) IN
            \A m \in DOMAIN medicines :
                again.db.medicines[m].quantity = medicines[m].quantity

\* C30: a dispense call on a validated prescription makes no decrement and
\* creates no dispense transaction for a medicine that is inactive or has
\* expired at the time of the call.
C30_NoDispenseFromInactiveOrExpired ==
    \A p \in DOMAIN prescriptions :
        prescriptions[p].status = VALIDATED =>
            LET r == dispensePrescriptionResult(DB, p, now) IN
            \A m \in DOMAIN medicines :
                (~medicines[m].isActive \/ medicines[m].expiryDate < now) =>
                    /\ r.db.medicines[m].quantity = medicines[m].quantity
                    /\ \A i \in (Len(transactions) + 1)..Len(r.db.transactions) :
                          r.db.transactions[i].medicineId /= m

(***************************************************************************)
(* Post-condition of one complete sweep                                    *)
(***************************************************************************)

\* The length of the log up to which stock corrections are made
MaxRestockTx == 2

\* Calls of the medicine and reorder handlers with stock corrections between
\* them, and runs of the scheduled sweep
NextRestock ==
    \/ \E m \in ReorderMedicineInputs :
          createMedicine(m.quantity, m.reorderThreshold, FarFuture)
    \/ \E id \in DOMAIN medicines, u \in QuantityUpdates :
          /\ Len(transactions) < MaxRestockTx
          /\ updateMedicine(id, u)
    \/ \E id \in DOMAIN medicines : deleteMedicine(id)
    \/ \E natural \in NaturalOrders : checkAndCreateReorderRequests(natural)
    \/ \E id \in DOMAIN reorders : approveRequest(id)
    \/ \E id \in DOMAIN reorders, rq \in {Absent, <<-10>>} : markAsReceived(id, rq)

SpecRestock == Init /\ [][NextRestock]_vars

\* The sweep run alone from the current state, with what it threw
SweepAlone(natural) ==
    SweepFrom(1, medicines, [reorders |-> reorders, error |-> NoError], natural)

\* C25: from every reachable state, a sweep that runs alone and meets no
\* database error leaves every active medicine with quantity <= reorderThreshold
\* with a pending or approved request whose currentStock is the medicine's
\* quantity; every request it creates is for an active medicine at or below its
\* threshold; and of the requests stored before, it changes only the
\* currentStock of pending or approved ones.
C25_SweepPostCondition ==
    \A natural \in NaturalOrders :
        LET swept == SweepAlone(natural) IN
        swept.error = NoError =>
           /\ \A m \in DOMAIN medicines :
                 (medicines[m].isActive /\ medicines[m].quantity <= medicines[m].reorderThreshold)
                    => \E r \in OpenRequests(swept.reorders, m) :
                          swept.reorders[r].currentStock = medicines[m].quantity
           /\ Len(swept.reorders) >= Len(reorders)
           /\ \A r \in DOMAIN swept.reorders \ DOMAIN reorders :
                 LET medicine == medicines[swept.reorders[r].medicineId] IN
                 medicine.isActive /\ medicine.quantity <= medicine.reorderThreshold
           /\ \A r \in DOMAIN reorders :
                 /\ swept.reorders[r]
                       = [reorders[r] EXCEPT !.currentStock = swept.reorders[r].currentStock]
                 /\ swept.reorders[r] /= reorders[r]
                       => reorders[r].status \in OpenStatuses

\* A state a sweep runs from without error: an active medicine at or below its
\* threshold has an open request whose snapshot has drifted, a medicine is
\* inactive or above its threshold, and a request is no longer open
C25_Witness ==
    /\ \A natural \in NaturalOrders : SweepAlone(natural).error = NoError
    /\ \E m \in DOMAIN medicines :
          /\ medicines[m].isActive /\ medicines[m].quantity <= medicines[m].reorderThreshold
          /\ \E r \in OpenRequests(reorders, m) : reorders[r].currentStock /= medicines[m].quantity
    /\ \E m \in DOMAIN medicines :
          ~medicines[m].isActive \/ medicines[m].quantity > medicines[m].reorderThreshold
    /\ \E r \in DOMAIN reorders : reorders[r].status \notin OpenStatuses

(***************************************************************************)
(* Properties of the reorder recommendations                               *)
(***************************************************************************)

\* The last answer is one of getReorderRecommendations
RecommendationsReplied ==
    queryReply /= <<>> /\ "recommendations" \in DOMAIN queryReply[1]

\* C26: every recommendation getReorderRecommendations returns carries the
\* averageDailyDemand, predictedDemand and daysUntilStockout that getDemandTrends
\* reports for the same medicine, log, stock and window, also when nothing was
\* sold or dispensed in the window. (Refuted: with no demand in the window the
\* recommendation says 999 days, the trend says 0.)
C26_SameProjection ==
    RecommendationsReplied =>
        \A i \in DOMAIN queryReply[1].recommendations :
            LET entry == queryReply[1].recommendations[i]
                trend == getDemandTrendsResult(DB, <<entry.medicineId>>,
                                               <<queryReply[1].days>>, now)
            IN /\ entry.averageDailyDemand = trend.averageDaily
               /\ entry.predictedDemand = trend.next30Days
               /\ entry.daysUntilStockout = trend.daysUntilStockout

\* The place of a tier in the order critical < high < medium < low
TierRank(tier) ==
    CASE tier = "critical" -> 0 [] tier = "high" -> 1
      [] tier = "medium" -> 2 [] tier = "low" -> 3

\* C27: in every list getReorderRecommendations returns, each entry's urgency is
\* critical if its daysUntilStockout <= 7, high if <= 14, medium if <= 30 and
\* low otherwise; each entry's medicine has quantity <= reorderThreshold or the
\* entry's daysUntilStockout is <= 60; and the entries are in the order of their
\* urgency and, at equal urgency, of their medicine's priority.
C27_TiersInclusionOrder ==
    RecommendationsReplied =>
        LET list == queryReply[1].recommendations IN
        /\ \A i \in DOMAIN list :
              LET d == list[i].daysUntilStockout
                  medicine == medicines[list[i].medicineId]
              IN /\ (d <= 7) => list[i].urgency = "critical"
                 /\ (d > 7 /\ d <= 14) => list[i].urgency = "high"
                 /\ (d > 14 /\ d <= 30) => list[i].urgency = "medium"
                 /\ (d > 30) => list[i].urgency = "low"
                 /\ medicine.quantity <= medicine.reorderThreshold \/ d <= 60
        /\ \A i \in DOMAIN list, j \in DOMAIN list :
              i < j =>
                 \/ TierRank(list[i].urgency) < TierRank(list[j].urgency)
                 \/ /\ list[i].urgency = list[j].urgency
                    /\ TierRank(medicines[list[i].medicineId].priority)
                          <= TierRank(medicines[list[j].medicineId].priority)

\* An answer listing the second medicine before the first, of equal urgency and
\* lower priority, one of them at a tier's edge of 7 days and above its threshold
C27_Witness ==
    /\ RecommendationsReplied
    /\ Len(queryReply[1].recommendations) = 2
    /\ LET list == queryReply[1].recommendations IN
       /\ list[1].medicineId = 2 /\ list[2].medicineId = 1
       /\ list[1].urgency = list[2].urgency
       /\ list[1].priority = "critical" /\ list[2].priority = "low"
       /\ list[1].daysUntilStockout = 7
       /\ list[1].currentStock > list[1].reorderThreshold

---------------------------------------------------------------------------
(***************************************************************************)
(* Requests served side by side: each handler advances from one database   *)
(* call (await) to the next, and another connection's handler may run in   *)
(* between                                                                 *)
(***************************************************************************)

MaxRaceMeds == 1
MaxRacePresc == 2

\* res.status(code).json(...): the request on connection c is answered
Answer(c, code) ==
    calls' = [calls EXCEPT ![c] = [IdleCall EXCEPT !.code = code]]

\* The handler on connection c awaits its next database call
Await(c, call) == calls' = [calls EXCEPT ![c] = call]

\* dispensePrescription up to the end of Prescription.findById and the tests of
\* its result
DispenseFindPrescription(c, id) ==
    /\ calls[c].pc = "idle"
    /\ IF ~IsValidObjectId(id) THEN Answer(c, 400)
       ELSE IF ~Exists(prescriptions, id) THEN Answer(c, 404)
       ELSE IF NotValidated(prescriptions[id]) THEN Answer(c, 400)
       ELSE Await(c, [IdleCall EXCEPT !.op = "dispense", !.pc = "findMedicine",
                                      !.id = id, !.items = prescriptions[id].items,
                                      !.i = 1])
    /\ UNCHANGED <<medicines, prescriptions, reorders, transactions, now, env, sweeps,
                   queryReply>>

\* Medicine.findById(item.medicineId) and the tests of its result: a throw is
\* caught and answered 500
DispenseFindMedicine(c) ==
    /\ calls[c].op = "dispense" /\ calls[c].pc = "findMedicine"
    /\ LET item == calls[c].items[calls[c].i] IN
       IF ~Exists(medicines, item.medicineId) THEN Answer(c, 500)
       ELSE LET medicine == medicines[item.medicineId] IN
            IF medicine.quantity < item.quantity THEN Answer(c, 500)
            ELSE Await(c, [calls[c] EXCEPT !.pc = "updateMedicine",
                                           !.previousStock = medicine.quantity])
    /\ UNCHANGED <<medicines, prescriptions, reorders, transactions, now, env, sweeps,
                   queryReply>>

\* Medicine.findByIdAndUpdate(item.medicineId, {quantity: newStock}) with
\* newStock = previousStock - item.quantity
DispenseUpdateMedicine(c) ==
    /\ calls[c].op = "dispense" /\ calls[c].pc = "updateMedicine"
    /\ LET item == calls[c].items[calls[c].i]
           newStock == calls[c].previousStock - item.quantity
       IN medicines' = [medicines EXCEPT ![item.medicineId].quantity = newStock]
    /\ Await(c, [calls[c] EXCEPT !.pc = "createTransaction"])
    /\ UNCHANGED <<prescriptions, reorders, transactions, now, env, sweeps, queryReply>>

\* Transaction.create({type: DISPENSE, ...}), then the next item or the end of
\* the loop
DispenseCreateTransaction(c) ==
    /\ calls[c].op = "dispense" /\ calls[c].pc = "createTransaction"
    /\ Len(transactions) < MaxTx
    /\ LET item == calls[c].items[calls[c].i]
           previousStock == calls[c].previousStock
           newStock == previousStock - item.quantity
       IN transactions' = Append(transactions,
             Tx(item.medicineId, "dispense", item.quantity, previousStock, newStock,
                calls[c].id))
    /\ IF calls[c].i < Len(calls[c].items)
       THEN Await(c, [calls[c] EXCEPT !.pc = "findMedicine", !.i = @ + 1])
       ELSE Await(c, [calls[c] EXCEPT !.pc = "updatePrescription"])
    /\ UNCHANGED <<medicines, prescriptions, reorders, now, env, sweeps, queryReply>>

\* Prescription.findByIdAndUpdate(id, {status: DISPENSED, ...}) and the answer
DispenseUpdatePrescription(c) ==
    /\ calls[c].op = "dispense" /\ calls[c].pc = "updatePrescription"
    /\ prescriptions' = [prescriptions EXCEPT ![calls[c].id].status = DISPENSED,
                                              ![calls[c].id].dispensedAt = now]
    /\ Answer(c, 200)
    /\ UNCHANGED <<medicines, reorders, transactions, now, env, sweeps, queryReply>>

\* validatePrescription up to the end of Prescription.findById and the tests of
\* its result
ValidateFindPrescription(c, id) ==
    /\ calls[c].pc = "idle"
    /\ IF ~IsValidObjectId(id) THEN Answer(c, 400)
       ELSE IF ~Exists(prescriptions, id) THEN Answer(c, 404)
       ELSE IF NotPending(prescriptions[id]) THEN Answer(c, 400)
       ELSE Await(c, [IdleCall EXCEPT !.op = "validate", !.pc = "findMedicine",
                                      !.id = id, !.items = prescriptions[id].items,
                                      !.i = 1])
    /\ UNCHANGED <<medicines, prescriptions, reorders, transactions, now, env, sweeps,
                   queryReply>>

\* Medicine.findById(item.medicineId) and the message pushed for the item, if any
ValidateFindMedicine(c) ==
    /\ calls[c].op = "validate" /\ calls[c].pc = "findMedicine"
    /\ LET checked == [calls[c] EXCEPT !.validationErrors =
                          @ \o ItemError(calls[c].items[calls[c].i], medicines, now)]
       IN IF calls[c].i < Len(calls[c].items)
          THEN Await(c, [checked EXCEPT !.i = @ + 1])
          ELSE Await(c, [checked EXCEPT !.pc = "updatePrescription"])
    /\ UNCHANGED <<medicines, prescriptions, reorders, transactions, now, env, sweeps,
                   queryReply>>

\* Prescription.findByIdAndUpdate(id, {status: REJECTED or VALIDATED, ...}) and
\* the answer
ValidateUpdatePrescription(c) ==
    /\ calls[c].op = "validate" /\ calls[c].pc = "updatePrescription"
    /\ IF Len(calls[c].validationErrors) > 0
       THEN /\ prescriptions' =
                  [prescriptions EXCEPT
                      ![calls[c].id].status = REJECTED,
                      ![calls[c].id].rejectionReason = Join(calls[c].validationErrors),
                      ![calls[c].id].validatedAt = now]
            /\ Answer(c, 400)
       ELSE /\ prescriptions' = [prescriptions EXCEPT ![calls[c].id].status = VALIDATED,
                                                      ![calls[c].id].validatedAt = now]
            /\ Answer(c, 200)
    /\ UNCHANGED <<medicines, reorders, transactions, now, env, sweeps, queryReply>>

\* markAsReceived and markReorderRequestAsReceived up to the end of
\* ReorderRequest.findById: a missing request throws and is answered 500
ReceiveFindRequest(c, id, receivedQuantity) ==
    /\ calls[c].pc = "idle"
    /\ IF ~IsValidObjectId(id) THEN Answer(c, 400)
       ELSE IF ~Exists(reorders, id) THEN Answer(c, 500)
       ELSE Await(c, [IdleCall EXCEPT
                         !.op = "receive", !.pc = "findMedicine", !.id = id,
                         !.medicineId = reorders[id].medicineId,
                         !.quantityToAdd = QuantityToAdd(receivedQuantity,
                                                         reorders[id].requestedQuantity)])
    /\ UNCHANGED <<medicines, prescriptions, reorders, transactions, now, env, sweeps,
                   queryReply>>

\* Medicine.findById(request.medicineId)
ReceiveFindMedicine(c) ==
    /\ calls[c].op = "receive" /\ calls[c].pc = "findMedicine"
    /\ IF Exists(medicines, calls[c].medicineId)
       THEN Await(c, [calls[c] EXCEPT !.pc = "updateMedicine"])
       ELSE Await(c, [calls[c] EXCEPT !.pc = "updateRequest"])
    /\ UNCHANGED <<medicines, prescriptions, reorders, transactions, now, env, sweeps,
                   queryReply>>

\* Medicine.findByIdAndUpdate(request.medicineId, {$inc: {quantity: quantityToAdd}})
ReceiveUpdateMedicine(c) ==
    /\ calls[c].op = "receive" /\ calls[c].pc = "updateMedicine"
    /\ medicines[calls[c].medicineId].quantity + calls[c].quantityToAdd <= MaxStock
    /\ medicines' = [medicines EXCEPT ![calls[c].medicineId].quantity =
                                          @ + calls[c].quantityToAdd]
    /\ Await(c, [calls[c] EXCEPT !.pc = "updateRequest"])
    /\ UNCHANGED <<prescriptions, reorders, transactions, now, env, sweeps, queryReply>>

\* ReorderRequest.findByIdAndUpdate(requestId, {status: RECEIVED, ...}) and the
\* answer
ReceiveUpdateRequest(c) ==
    /\ calls[c].op = "receive" /\ calls[c].pc = "updateRequest"
    /\ reorders' = [reorders EXCEPT
                       ![calls[c].id].status = R_RECEIVED,
                       ![calls[c].id].receivedAt = now,
                       ![calls[c].id].requestedQuantity = calls[c].quantityToAdd]
    /\ Answer(c, 200)
    /\ UNCHANGED <<medicines, prescriptions, transactions, now, env, sweeps, queryReply>>

\* The prescriptions written while requests race: one item on the one medicine,
\* once it is stored
RaceItemLists == {<<[medicineId |-> 1, quantity |-> 2]>>}

\* A medicine, prescriptions on it and sweeps, each served alone, and validate,
\* dispense and receive requests served side by side on two connections
NextRace ==
    \/ \E body \in ApiMedicineBodies :
          /\ Len(medicines) < MaxRaceMeds
          /\ createMedicine(body.quantity, body.reorderThreshold, body.expiryDate)
    \/ \E items \in RaceItemLists :
          /\ Len(prescriptions) < MaxRacePresc
          /\ \A i \in DOMAIN items : Exists(medicines, items[i].medicineId)
          /\ Commit(createPrescriptionResult(DB, items))
    \/ \E natural \in NaturalOrders : checkAndCreateReorderRequests(natural)
    \/ \E c \in Connections, id \in DOMAIN prescriptions : ValidateFindPrescription(c, id)
    \/ \E c \in Connections : ValidateFindMedicine(c)
    \/ \E c \in Connections : ValidateUpdatePrescription(c)
    \/ \E c \in Connections, id \in DOMAIN prescriptions : DispenseFindPrescription(c, id)
    \/ \E c \in Connections : DispenseFindMedicine(c)
    \/ \E c \in Connections : DispenseUpdateMedicine(c)
    \/ \E c \in Connections : DispenseCreateTransaction(c)
    \/ \E c \in Connections : DispenseUpdatePrescription(c)
    \/ \E c \in Connections, id \in DOMAIN reorders : ReceiveFindRequest(c, id, Absent)
    \/ \E c \in Connections : ReceiveFindMedicine(c)
    \/ \E c \in Connections : ReceiveUpdateMedicine(c)
    \/ \E c \in Connections : ReceiveUpdateRequest(c)

SpecRace == Init /\ [][NextRace]_vars

\* The item the dispense on connection c is at
ItemAt(c) == calls[c].items[calls[c].i]

\* C21: every write a dispense makes to a medicine's quantity lowers the quantity
\* stored at that moment by the item's quantity, and every write a receipt makes
\* raises it by the quantity received, whatever other requests ran in between;
\* so the final quantity is the initial one minus all that was dispensed plus all
\* that was received. (Refuted: the dispense writes the quantity it read earlier
\* minus the item's.)
C21_StockWritesAreIncrements ==
    [][\A c \in Connections :
          /\ DispenseUpdateMedicine(c) =>
                medicines'[ItemAt(c).medicineId].quantity
                   = medicines[ItemAt(c).medicineId].quantity - ItemAt(c).quantity
          /\ ReceiveUpdateMedicine(c) =>
                medicines'[calls[c].medicineId].quantity
                   = medicines[calls[c].medicineId].quantity + calls[c].quantityToAdd]_vars

\* C22: in every step of requests served side by side, a dispensed or rejected
\* prescription keeps its status, and a validated one does not become rejected.
C22_TransitionsOneWay ==
    [][\A p \in DOMAIN prescriptions :
          /\ prescriptions[p].status \in {DISPENSED, REJECTED}
                => prescriptions'[p].status = prescriptions[p].status
          /\ prescriptions[p].status = VALIDATED
                => prescriptions'[p].status /= REJECTED]_vars

\* C29: whatever dispense requests were served on a prescription, one after the
\* other or side by side, the log holds at most one dispense transaction per
\* item of the prescription, and no more was taken from a medicine for the
\* prescription than its items ask for.
C29_DebitedAtMostOnce ==
    \A p \in DOMAIN prescriptions, m \in DOMAIN medicines :
        LET taken == SelectSeq(transactions, LAMBDA t :
                        t.type = "dispense" /\ t.prescriptionId = p /\ t.medicineId = m)
            asked == SelectSeq(prescriptions[p].items, LAMBDA item : item.medicineId = m)
        IN /\ Len(taken) <= Len(asked)
           /\ TotalQuantity(taken) <= Demand(prescriptions[p].items, m)

====
